---- MODULE Spec2Model ----
(***************************************************************************)
(* Client-side agent-run stream transport of iris (frontend api module):   *)
(* streamAgent / stopAgent / getAgentStatus over the module-level          *)
(* registries activeStreams and nonRunningAgentRuns; and the message store  *)
(* of the useAgentRun hook fed by connectRunStream; and the playback of a  *)
(* shared thread on the share page.                                        *)
(***************************************************************************)
EXTENDS Integers, Sequences, FiniteSets, TLC

\* ---------------------------------------------------------------- bounds
\* streamAgent invocations in one behaviour of Spec and SpecStop
MaxCalls == 1
\* streamAgent invocations in one behaviour of SpecRace
MaxRaceCalls == 2
\* getAgentStatus requests in flight at one time
MaxPending == 2
\* stopAgent invocations per run id
MaxStops == 1
\* stopAgent invocations per run id where a call is repeated
MaxRepeatStops == 2
\* startStreaming invocations of one useAgentRun instance
MaxStarts == 1
\* messages of the run returned to one loadRun call
MaxLoad == 1
\* messages of a shared thread
MaxMessages == 2
\* settle timeouts of the share page pending at one time
MaxSettle == 2

\* ------------------------------------------------------ program constants
\* setInterval period of the watchdog (ms)
WatchdogIntervalMs == 5000
\* silence after which the watchdog queries the run status (ms)
WatchdogTimeoutMs == 15000

\* Run ids are opaque strings; the second one contains the text "404",
\* which matters to the substring test of the transport-error handler.
Runs == {"run-a", "run-b404"}

IdContains404(r) == r = "run-b404"

MaxSlots == IF MaxCalls > MaxRaceCalls THEN MaxCalls ELSE MaxRaceCalls

Calls == 1..MaxSlots

NoCall == 0

\* Date.now() - window.lastStreamMessage is only ever compared with the
\* timeout: it is either 0 (activity within the timeout) or ElapsedCap, the
\* first watchdog period at which more than the timeout has passed.
ElapsedCap == WatchdogTimeoutMs + WatchdogIntervalMs

\* ------------------------------------------------------- stream payloads
\* event.data is modelled by the set of substrings the handler tests for.
Ping == "\"type\":\"ping\""

Blank == "<blank>"

NotFoundText == "Agent run ... not found in active runs"

TypeStatus == "\"type\":\"status\""

StatusCompleted == "\"status\":\"completed\""

FinalNoRunData == "Run data not available for streaming"

FinalStreamEnded == "Stream ended with status: completed"

ThreadRunEnd == "\"status_type\":\"thread_run_end\""

Payloads ==
  { {},
    {Ping},
    {Blank},
    {Ping, NotFoundText},
    {NotFoundText},
    {TypeStatus, StatusCompleted},
    {TypeStatus, StatusCompleted, FinalNoRunData},
    {TypeStatus, StatusCompleted, FinalStreamEnded},
    {TypeStatus, ThreadRunEnd},
    {TypeStatus, StatusCompleted, ThreadRunEnd},
    {NotFoundText, TypeStatus, ThreadRunEnd} }

\* Outcomes of one getAgentStatus call that reached the backend.
StatusOutcomes ==
  {"running", "completed", "http404", "http500", "noToken",
   "networkFailure"}

VARIABLES
  sessionRuns,          \* run ids the client session works with
  nonRunningAgentRuns,  \* Set<string> of run ids known to be terminal
  activeStreams,        \* Map run id -> EventSource (by the call that made it)
  nCalls,               \* streamAgent invocations made so far
  callRun,              \* run id argument of each streamAgent invocation
  setupPc,              \* position of each invocation's async setupStream
  eventSource,          \* state of the EventSource each invocation created
  watchdogInterval,     \* closure variable: is the interval timer armed
  pending,              \* getAgentStatus calls in flight, per call and origin
  elapsed,              \* Date.now() - (window.lastStreamMessage || 0)
  onCloseCount,         \* invocations of callbacks.onClose per subscription
  startedTerminal,      \* was the run id terminal when streamAgent was called
  stopPc,               \* stopAgent invocations per run id, by position
  remoteStops,          \* POST .../stop requests issued per run id
  last                  \* the handler that ran last and what it did

VARIABLES
  state,                \* useAgentRun state: byId, order, isStreaming, error
  streamCleanupRef,     \* streamCleanupRef.current, by the start that set it
  nStarts,              \* startStreaming invocations made so far
  startPc,              \* position of each startStreaming invocation
  runStream,            \* state of the EventSource of each connectRunStream
  clearedSince,         \* has clear() returned since the invocation began
  lastOp                \* the hook operation that ran last

hookVars ==
  << state, streamCleanupRef, nStarts, startPc, runStream, clearedSince,
     lastOp >>

VARIABLES
  thread,               \* SharePage thread (null until loadThread stores it)
  isPlaying,            \* SharePage isPlaying
  currentMessageIndex,  \* SharePage currentMessageIndex
  streamingText,        \* SharePage streamingText
  isStreamingComplete,  \* SharePage isStreamingComplete
  streamingInterval,    \* the interval behind streamingIntervalRef.current
  settleTimeouts,       \* setTimeout callbacks of finished reveals, pending
  lastPlayback          \* the playback operation or timer that ran last

replayVars ==
  << thread, isPlaying, currentMessageIndex, streamingText,
     isStreamingComplete, streamingInterval, settleTimeouts, lastPlayback >>

VARIABLES
  norm                  \* normalizeMessage: the raw event and what it became

normVars == << norm >>

vars ==
  << sessionRuns, nonRunningAgentRuns, activeStreams, nCalls, callRun, setupPc,
     eventSource, watchdogInterval, pending, elapsed, onCloseCount,
     startedTerminal, stopPc, remoteStops, last, hookVars, replayVars, normVars >>

streamVars ==
  << sessionRuns, activeStreams, nCalls, callRun, setupPc, eventSource,
     watchdogInterval, pending, elapsed, onCloseCount, startedTerminal >>

stopVars == << stopPc, remoteStops >>

transportVars == << nonRunningAgentRuns, streamVars, stopVars, last >>

NoRun == "none"

\* Record of the handler that ran last.
Event(kind, c, r) ==
  [ kind    |-> kind,
    call    |-> c,
    run     |-> r,
    payload |-> {},
    threw   |-> FALSE,
    origin  |-> "none",
    query   |-> "none",
    outcome |-> "none",
    cbs     |-> << >> ]

\* A session that follows one agent run.
SingleRunSessions == {{r} : r \in Runs}

\* ---------------------------------------------------- SharePage: history
\* Message text as a sequence of pieces: "t" a character of plain text,
\* " " a blank, "[U" the opening "[Uploaded File: " of an attachment marker,
\* "p" a character of its path, "]" its closing bracket.
Contents ==
  { << >>, << "t", "t" >>, << "t", " ", "[U", "p", "]" >> }

RECURSIVE ListsUpTo(_, _)
ListsUpTo(S, n) ==
  IF n = 0 THEN {<< >>}
  ELSE LET shorter == ListsUpTo(S, n - 1) IN
         shorter \cup {Append(q, x) : q \in shorter, x \in S}

\* thread.messages of a shared thread, by content
Histories == ListsUpTo(Contents, MaxMessages)

\* useState<SharedThread | null>(null)
NoThread == [loaded |-> FALSE, messages |-> << >>]

\* Arguments skipToMessage is called with.
SkipArgs == {-5, -1, 0, 1, 2, 999}

NoInterval == [live |-> FALSE, msg |-> 0, charIndex |-> 0]

\* Record of the playback operation or timer that ran last.
Playback(op, arg, partial) == [op |-> op, arg |-> arg, partial |-> partial]

\* ------------------------------------------------- useAgentRun: messages
MsgIds == {"m1", "m2"}

OptionalKeys == {"content", "metadata"}

FieldValues(k) ==
  CASE k = "message_id" -> MsgIds
    [] k = "content" -> {"c1", "c2"}
    [] k = "metadata" -> {"d1"}

AllFieldValues ==
  UNION {FieldValues(k) : k \in OptionalKeys \cup {"message_id"}}

\* The objects JSON.parse can hand to updateMessage: a message_id and any
\* non-empty choice of the other fields.
AgentMessages ==
  UNION { { f \in [K \cup {"message_id"} -> AllFieldValues] :
              \A k \in DOMAIN f : f[k] \in FieldValues(k) } :
          K \in (SUBSET OptionalKeys) \ {{}} }

\* event.data that JSON.parse rejects
Malformed == [raw |-> "not JSON"]

Starts == 1..MaxStarts

NoStart == 0

NoId == "none"

NoError == "null"

\* The object {} .
EmptyObject == [k \in {} |-> k]

\* The state useState starts with and clear() goes back to.
EmptyState ==
  [byId |-> EmptyObject, order |-> << >>, isStreaming |-> FALSE,
   error |-> NoError]

\* Record of the hook operation that ran last.
Op(op, id, existed) == [op |-> op, id |-> id, existed |-> existed]

RECURSIVE SeqsUpTo(_, _)
SeqsUpTo(S, n) ==
  IF n = 0 THEN {<< >>}
  ELSE LET shorter == SeqsUpTo(S, n - 1) IN
         shorter \cup {Append(q, x) : q \in shorter, x \in S}

\* Rows of the run as the backend stores them: every field is present.
StoredMessages ==
  {m \in AgentMessages : DOMAIN m = OptionalKeys \cup {"message_id"}}

\* run.messages of the run found in the loadRun response
LoadLists == SeqsUpTo(StoredMessages, MaxLoad)

\* ------------------------------------------------- normalizeMessage: values
\* A JavaScript value that content, output or metadata can hold: undefined, a
\* string (its text as a sequence of tokens) or an object (its properties
\* as a sequence of pairs).
Undefined == [kind |-> "undefined", text |-> << >>, pairs |-> << >>]

Str(text) == [kind |-> "string", text |-> text, pairs |-> << >>]

Obj(pairs) == [kind |-> "object", text |-> << >>, pairs |-> pairs]

\* An absent scalar property (type, role, id, message_id, a property value).
NoValue == "undefined"

\* Tokens of a string: plain text, white space, the braces and the
\* "key":"value" pairs of JSON text, <name ...> and </name> markers (a name
\* is kept as its pieces, so that the letters-and-hyphens capture can stop
\* inside it), and the quote JSON.stringify puts around a string.
Token(t, k, v, name) == [t |-> t, k |-> k, v |-> v, name |-> name]

Text(s) == Token("text", "", s, << >>)

Ws == Token("ws", "", " ", << >>)

OpenBrace == Token("{", "", "", << >>)

CloseBrace == Token("}", "", "", << >>)

Pair(k, v) == Token("pair", k, v, << >>)

Nested(k) == Token("nested", k, "", << >>)

Tag(name) == Token("tag", "", "", name)

EndTag(name) == Token("endtag", "", "", name)

ToolResultName == << "tool", "_", "result" >>

\* message.content of the raw events
EventContents ==
  { Undefined,
    Str(<< >>),
    Str(<< Text("plain") >>),
    Str(<< OpenBrace, Ws, Pair("content", "hi"), Ws, CloseBrace >>),
    Str(<< OpenBrace, Pair("function_name", "web_search"), CloseBrace >>),
    Str(<< OpenBrace, Pair("function_name", "web_search") >>),
    Str(<< Tag(<< "web", "-", "search" >>), Text("plain"),
           EndTag(<< "web", "-", "search" >>) >>),
    Str(<< Tag(ToolResultName), Text("plain"), EndTag(ToolResultName) >>),
    Str(<< Tag(ToolResultName), OpenBrace, Pair("tool", "web_search"),
           CloseBrace, EndTag(ToolResultName),
           Tag(ToolResultName), Text("plain"), EndTag(ToolResultName) >>),
    Str(<< Tag(ToolResultName), OpenBrace, Pair("output", "done"),
           Pair("success", "false"), CloseBrace, EndTag(ToolResultName) >>),
    Str(<< OpenBrace, Pair("type", "tool_call"), Pair("tool", "web_search"),
           CloseBrace >>),
    Str(<< OpenBrace, Pair("success", "true"), Pair("output", "done"),
           CloseBrace >>),
    Obj(<< Pair("function_name", "web_search") >>) }

\* message.metadata of the raw events: absent, an object (with and without
\* a tool name), JSON text of an object, and text that is not JSON.
EventMetadata ==
  { Undefined,
    Obj(<< Pair("tool_name", "file_write") >>),
    Obj(<< Pair("source", "agent") >>),
    Str(<< OpenBrace, Pair("function_name", "file_write"), CloseBrace >>),
    Str(<< Text("plain") >>) }

\* message.type and message.role of the raw events
EventKinds ==
  {[type |-> t, role |-> NoValue] :
     t \in {"user", "assistant", "tool_call", "tool_result", "tool_start",
            "tool_error", "status", "tool", "legacy", NoValue}}
  \cup {[type |-> NoValue, role |-> r] : r \in {"user", "assistant", "tool"}}

\* normalizeMessage(null)
Null == [null |-> TRUE]

\* The raw events: null and records.
RawEvents ==
  {Null} \cup
  {[type |-> kind.type, role |-> kind.role, id |-> id, message_id |-> mid,
    content |-> content, metadata |-> metadata] :
     kind \in EventKinds, id \in {NoValue, "m1"}, mid \in {NoValue, "m2"},
     content \in EventContents, metadata \in EventMetadata}

\* generateId(): one fresh value per call of normalizeMessage
GeneratedIds == << "msg_1", "msg_2" >>

\* A NormalizedMessage (id, type, content, tool, output, raw).  raw is Null
\* where the returned object has no raw property or holds null.
Normalized(id, type, content, tool, output, raw) ==
  [id |-> id, type |-> type, content |-> content, tool |-> tool,
   output |-> output, raw |-> raw]

NotNormalized == Normalized(NoValue, "none", Undefined, NoValue, Undefined, Null)

\* A property of an object that is itself a property: parent.k = v
NestedPair(parent, k, v) == Token("in", k, v, << parent >>)

\* A ToolModel (tools/types); created_at is the time of the call for every
\* message of the universe, none of which has a timestamp.
ToolModel(id, type, tag, attrs, result, error, logs, path, workspace, mode) ==
  [id |-> id, type |-> type, tag |-> tag, attrs |-> attrs, result |-> result,
   error |-> error, logs |-> logs, path |-> path, workspace |-> workspace,
   mode |-> mode, created_at |-> "now"]

NoToolModel ==
  ToolModel(NoValue, "none", NoValue, Undefined, Undefined, NoValue, NoValue,
            NoValue, NoValue, NoValue)

\* message.content of tool events: absent, plain text, the payloads of a
\* file-write start and result as JSON text and as objects, a payload with
\* top-level and nested fields and no tag, and an error payload.
ToolContents ==
  { Undefined,
    Str(<< Text("plain") >>),
    Str(<< OpenBrace, Pair("tag", "file-write"),
           NestedPair("attrs", "path", "out.txt"), CloseBrace >>),
    Str(<< OpenBrace, Pair("tag", "file-write"),
           NestedPair("result", "ok", "true"),
           NestedPair("result", "path", "out.txt"), CloseBrace >>),
    Obj(<< Pair("tag", "file-write"),
           NestedPair("attrs", "path", "out.txt") >>),
    Obj(<< Pair("tag", "file-write"), NestedPair("result", "ok", "true"),
           NestedPair("result", "path", "out.txt") >>),
    Str(<< OpenBrace, Ws, Pair("path", "a.txt"),
           NestedPair("result", "path", "b.txt"),
           NestedPair("result", "logs", "ok"), CloseBrace >>),
    Str(<< OpenBrace, Pair("tag", "execute-python"), Pair("error", "boom"),
           CloseBrace >>) }

\* The tool events: tool-lifecycle types and legacy tool messages.
ToolEvents ==
  {[type |-> type, role |-> NoValue, id |-> id, message_id |-> mid,
    content |-> content, metadata |-> Undefined] :
     type \in {"tool_start", "tool_result", "tool_error", "tool"},
     id \in {NoValue, "m1"}, mid \in {NoValue, "m2"},
     content \in ToolContents}

\* The state after the module is loaded and the components are mounted,
\* for a choice of the run ids the session works with.
InitWith(sessions) ==
  /\ norm = [calls |-> 0, raw |-> Null, first |-> NotNormalized,
             second |-> NotNormalized, model |-> NoToolModel]
  /\ sessionRuns \in sessions
  /\ nonRunningAgentRuns = {}
  /\ activeStreams = [r \in Runs |-> NoCall]
  /\ nCalls = 0
  /\ callRun = [c \in Calls |-> NoRun]
  /\ setupPc = [c \in Calls |-> "unused"]
  /\ eventSource = [c \in Calls |-> "none"]
  /\ watchdogInterval = [c \in Calls |-> FALSE]
  /\ pending = [c \in Calls |-> [wd |-> 0, err |-> 0]]
  /\ elapsed = ElapsedCap
  /\ onCloseCount = [c \in Calls |-> 0]
  /\ startedTerminal = [c \in Calls |-> FALSE]
  /\ stopPc = [r \in Runs |->
                 [await |-> 0, fetch |-> 0, begun |-> 0, threw |-> FALSE]]
  /\ remoteStops = [r \in Runs |-> 0]
  /\ last = Event("init", NoCall, NoRun)
  /\ state = [byId |-> EmptyObject, order |-> << >>, isStreaming |-> FALSE,
              error |-> NoError]
  /\ streamCleanupRef = NoStart
  /\ nStarts = 0
  /\ startPc = [k \in Starts |-> "unused"]
  /\ runStream = [k \in Starts |-> "none"]
  /\ clearedSince = [k \in Starts |-> FALSE]
  /\ lastOp = Op("init", NoId, FALSE)
  /\ thread = NoThread
  /\ isPlaying = FALSE
  /\ currentMessageIndex = 0
  /\ streamingText = << >>
  /\ isStreamingComplete = FALSE
  /\ streamingInterval = NoInterval
  /\ settleTimeouts = 0
  /\ lastPlayback = Playback("init", 0, FALSE)

Init == InitWith(SingleRunSessions)

\* existingStream.close(); activeStreams.delete(agentRunId)
CloseExisting(es, r) ==
  IF activeStreams[r] # NoCall
    THEN [es EXCEPT ![activeStreams[r]] = "closed"]
    ELSE es

\* ------------------------------------------------------------ streamAgent
\* Variant: a new subscription takes the run id out of the terminal set.
StreamAgent_ForgetsTerminal(r, limit) ==
  /\ nCalls < limit
  /\ r \in sessionRuns
  /\ LET c == nCalls + 1 IN
       /\ nCalls' = c
       /\ callRun' = [callRun EXCEPT ![c] = r]
       /\ eventSource' = CloseExisting(eventSource, r)
       /\ activeStreams' = [activeStreams EXCEPT ![r] = NoCall]
       /\ setupPc' = [setupPc EXCEPT ![c] = "awaitSession"]
       /\ startedTerminal' =
            [startedTerminal EXCEPT ![c] = r \in nonRunningAgentRuns]
       /\ last' = Event("streamAgent", c, r)
  /\ nonRunningAgentRuns' = nonRunningAgentRuns \ {r}
  /\ UNCHANGED << sessionRuns, hookVars, replayVars, normVars >>
  /\ UNCHANGED << watchdogInterval, pending, elapsed, onCloseCount,
                  stopVars >>

\* The synchronous part of streamAgent(agentRunId, callbacks): close and
\* forget an existing stream of the run id, then start setupStream, which
\* suspends at its credential fetch.
StreamAgent(r, limit) ==
  /\ nCalls < limit
  /\ r \in sessionRuns
  /\ LET c == nCalls + 1 IN
       /\ nCalls' = c
       /\ callRun' = [callRun EXCEPT ![c] = r]
       /\ eventSource' = CloseExisting(eventSource, r)
       /\ activeStreams' = [activeStreams EXCEPT ![r] = NoCall]
       /\ setupPc' = [setupPc EXCEPT ![c] = "awaitSession"]
       /\ startedTerminal' =
            [startedTerminal EXCEPT ![c] = r \in nonRunningAgentRuns]
       /\ last' = Event("streamAgent", c, r)
  /\ UNCHANGED << sessionRuns, hookVars, replayVars, normVars >>
  /\ UNCHANGED << nonRunningAgentRuns, watchdogInterval, pending, elapsed,
                  onCloseCount, stopVars >>

\* Variant: the EventSource is created and stored before the token is
\* looked at.
SetupStream_OpenBeforeAuth(c, hasToken) ==
  /\ setupPc[c] = "awaitSession"
  /\ LET r == callRun[c] IN
       /\ eventSource' = [eventSource EXCEPT ![c] = "open"]
       /\ activeStreams' = [activeStreams EXCEPT ![r] = c]
       /\ IF ~hasToken
            THEN /\ setupPc' = [setupPc EXCEPT ![c] = "noToken"]
                 /\ onCloseCount' = [onCloseCount EXCEPT ![c] = @ + 1]
                 /\ watchdogInterval' = watchdogInterval
                 /\ last' = [Event("setupStream", c, r) EXCEPT
                               !.outcome = "noToken",
                               !.cbs = << "onError", "onClose" >>]
            ELSE /\ setupPc' = [setupPc EXCEPT ![c] = "done"]
                 /\ watchdogInterval' =
                      [watchdogInterval EXCEPT ![c] = TRUE]
                 /\ onCloseCount' = onCloseCount
                 /\ last' = [Event("setupStream", c, r) EXCEPT
                               !.outcome = "open"]
  /\ UNCHANGED << sessionRuns, hookVars, replayVars, normVars >>
  /\ UNCHANGED << nonRunningAgentRuns, nCalls, callRun, pending, elapsed,
                  startedTerminal, stopVars >>

\* setupStream resumes after supabase.auth.getSession().
SetupStream(c, hasToken) ==
  /\ setupPc[c] = "awaitSession"
  /\ LET r == callRun[c] IN
       IF ~hasToken
         THEN /\ setupPc' = [setupPc EXCEPT ![c] = "noToken"]
              /\ onCloseCount' = [onCloseCount EXCEPT ![c] = @ + 1]
              /\ last' = [Event("setupStream", c, r) EXCEPT
                            !.outcome = "noToken",
                            !.cbs = << "onError", "onClose" >>]
              /\ UNCHANGED << eventSource, activeStreams, watchdogInterval >>
         ELSE /\ setupPc' = [setupPc EXCEPT ![c] = "done"]
              /\ eventSource' = [eventSource EXCEPT ![c] = "open"]
              /\ activeStreams' = [activeStreams EXCEPT ![r] = c]
              /\ watchdogInterval' = [watchdogInterval EXCEPT ![c] = TRUE]
              /\ onCloseCount' = onCloseCount
              /\ last' = [Event("setupStream", c, r) EXCEPT
                            !.outcome = "open"]
  /\ UNCHANGED << sessionRuns, hookVars, replayVars, normVars >>
  /\ UNCHANGED << nonRunningAgentRuns, nCalls, callRun, pending, elapsed,
                  startedTerminal, stopVars >>

\* ---------------------------------------------------------- getAgentStatus
\* First statement of getAgentStatus: a run id already in the terminal set
\* makes the call throw "Agent run <id> is not running" without any request.
KnownNonRunning(r) == r \in nonRunningAgentRuns

\* The call returned a status record (response.ok).
Resolves(outcome) == outcome \in {"running", "completed"}

\* getAgentStatus adds the run id to the terminal set on a 404 and on a
\* returned status other than running.
StatusMarksTerminal(outcome) ==
  \/ outcome = "http404"
  \/ (Resolves(outcome) /\ outcome # "running")

\* Variant: every rejection of the query is taken for a not-found.
IsNotFoundErr_AnyRejection(outcome, r) == TRUE

\* errMsg.includes('not found') || includes('404') || includes('does not exist')
\* over the messages getAgentStatus throws.
IsNotFoundErr(outcome, r) ==
  CASE outcome = "http404" -> TRUE
    [] outcome = "knownNonRunning" -> IdContains404(r)
    [] OTHER -> FALSE

\* Variant: the .then branch closes whatever status came back.
ErrorPathCloses_AnyStatus(outcome, r) ==
  IF Resolves(outcome) THEN TRUE ELSE IsNotFoundErr(outcome, r)

\* What the .then/.catch chain of the transport-error handler does with the
\* result of the query: does it close, and which callbacks does it invoke.
ErrorPathCloses(outcome, r) ==
  IF Resolves(outcome) THEN outcome # "running" ELSE IsNotFoundErr(outcome, r)

ErrorPathCallbacks(outcome, r) ==
  IF Resolves(outcome)
    THEN (IF outcome # "running" THEN << "onClose" >> ELSE << >>)
    ELSE (IF IsNotFoundErr(outcome, r) THEN << "onClose" >> ELSE << >>)
           \o << "onError" >>

\* The watchdog's chain: .then closes on a status other than running,
\* .catch(() => {}) ignores every rejection.
WatchdogPathCloses(outcome, r) == Resolves(outcome) /\ outcome # "running"

WatchdogPathCallbacks(outcome, r) ==
  IF WatchdogPathCloses(outcome, r) THEN << "onClose" >> ELSE << >>

PathCloses(origin, outcome, r) ==
  IF origin = "wd" THEN WatchdogPathCloses(outcome, r)
                   ELSE ErrorPathCloses(outcome, r)

PathCallbacks(origin, outcome, r) ==
  IF origin = "wd" THEN WatchdogPathCallbacks(outcome, r)
                   ELSE ErrorPathCallbacks(outcome, r)

RECURSIVE SumPending(_)
SumPending(cs) ==
  IF cs = {} THEN 0
  ELSE LET c == CHOOSE x \in cs : TRUE IN
         pending[c].wd + pending[c].err + SumPending(cs \ {c})

\* Requests of getAgentStatus awaiting the backend's answer.
InFlight == SumPending(Calls)

Count(seq, x) == Cardinality({i \in 1..Len(seq) : seq[i] = x})

\* ------------------------------------------------- eventSource.onmessage
HasFinalMarker(payload) ==
  FinalNoRunData \in payload \/ FinalStreamEnded \in payload

\* Variant: the not-found text is tested before the ping marker.
MessageBranch_NotFoundFirst(payload) ==
  CASE NotFoundText \in payload -> "notFound"
    [] Ping \in payload -> "ping"
    [] Blank \in payload -> "empty"
    [] TypeStatus \in payload /\ StatusCompleted \in payload -> "completed"
    [] TypeStatus \in payload /\ ThreadRunEnd \in payload -> "runEnd"
    [] OTHER -> "other"

\* The branch of the handler a payload takes (first match wins).
MessageBranch(payload) ==
  CASE Ping \in payload -> "ping"
    [] Blank \in payload -> "empty"
    [] NotFoundText \in payload -> "notFound"
    [] TypeStatus \in payload /\ StatusCompleted \in payload -> "completed"
    [] TypeStatus \in payload /\ ThreadRunEnd \in payload -> "runEnd"
    [] OTHER -> "other"

\* Variant: every completion status marks the run terminal.
MessageMarksTerminal_AnyCompletion(payload) ==
  MessageBranch(payload) \in {"notFound", "completed", "runEnd"}

\* Does the handler add the run id to nonRunningAgentRuns.
MessageMarksTerminal(payload) ==
  CASE MessageBranch(payload) = "notFound" -> TRUE
    [] MessageBranch(payload) = "completed" -> HasFinalMarker(payload)
    [] MessageBranch(payload) = "runEnd" -> TRUE
    [] OTHER -> FALSE

\* Does the handler reach eventSource.close(); activeStreams.delete();
\* callbacks.onClose().  cbThrows: callbacks.onMessage raises, which the
\* handler's try/catch turns into callbacks.onError.
MessageCloses(payload, cbThrows) ==
  CASE MessageBranch(payload) = "notFound" -> TRUE
    [] MessageBranch(payload) \in {"completed", "runEnd"} -> ~cbThrows
    [] OTHER -> FALSE

MessageCallbacks(payload, cbThrows) ==
  CASE MessageBranch(payload) \in {"ping", "empty"} -> << >>
    [] MessageBranch(payload) = "notFound" -> << "onError", "onClose" >>
    [] MessageBranch(payload) \in {"completed", "runEnd"} ->
         IF cbThrows THEN << "onMessage", "onError" >>
                     ELSE << "onMessage", "onClose" >>
    [] OTHER ->
         IF cbThrows THEN << "onMessage", "onError" >> ELSE << "onMessage" >>

\* callbacks.onMessage is only invoked on the branches that forward.
Forwards(payload) == MessageBranch(payload) \in {"completed", "runEnd", "other"}

OnMessage(c, payload, cbThrows) ==
  /\ eventSource[c] = "open"
  /\ cbThrows => Forwards(payload)
  /\ LET r == callRun[c]
         closes == MessageCloses(payload, cbThrows) IN
       /\ elapsed' = 0
       /\ nonRunningAgentRuns' =
            IF MessageMarksTerminal(payload)
              THEN nonRunningAgentRuns \cup {r} ELSE nonRunningAgentRuns
       /\ eventSource' =
            IF closes THEN [eventSource EXCEPT ![c] = "closed"] ELSE eventSource
       /\ activeStreams' =
            IF closes THEN [activeStreams EXCEPT ![r] = NoCall]
                      ELSE activeStreams
       /\ onCloseCount' =
            IF closes THEN [onCloseCount EXCEPT ![c] = @ + 1] ELSE onCloseCount
       /\ last' = [Event("message", c, r) EXCEPT
                     !.payload = payload,
                     !.threw = cbThrows,
                     !.cbs = MessageCallbacks(payload, cbThrows)]
  /\ UNCHANGED << sessionRuns, hookVars, replayVars, normVars >>
  /\ UNCHANGED << nCalls, callRun, setupPc, watchdogInterval, pending,
                  startedTerminal, stopVars >>

\* eventSource.onopen
OnOpen(c) ==
  /\ eventSource[c] = "open"
  /\ elapsed' = 0
  /\ last' = Event("open", c, callRun[c])
  /\ UNCHANGED << sessionRuns, hookVars, replayVars, normVars >>
  /\ UNCHANGED << nonRunningAgentRuns, activeStreams, nCalls, callRun,
                  setupPc, eventSource, watchdogInterval, pending,
                  onCloseCount, startedTerminal, stopVars >>

\* --------------------------------------------------- eventSource error
\* One error event runs eventSource.onerror and then the 'error' listener
\* that clears the watchdog.  The query either throws at once (run id known
\* terminal), in which case the .catch chain runs before any other event,
\* or goes to the backend and is answered later (StatusResponse).
OnError(c) ==
  /\ eventSource[c] = "open"
  /\ LET r == callRun[c]
         known == KnownNonRunning(r)
         closes == known /\ ErrorPathCloses("knownNonRunning", r) IN
       /\ ~known => InFlight < MaxPending
       /\ watchdogInterval' = [watchdogInterval EXCEPT ![c] = FALSE]
       /\ pending' =
            IF known THEN pending ELSE [pending EXCEPT ![c].err = @ + 1]
       /\ eventSource' =
            IF closes THEN [eventSource EXCEPT ![c] = "closed"] ELSE eventSource
       /\ activeStreams' =
            IF closes THEN [activeStreams EXCEPT ![r] = NoCall]
                      ELSE activeStreams
       /\ onCloseCount' =
            IF closes THEN [onCloseCount EXCEPT ![c] = @ + 1] ELSE onCloseCount
       /\ last' = [Event("error", c, r) EXCEPT
                     !.origin = "err",
                     !.query = IF known THEN "knownNonRunning" ELSE "sent",
                     !.cbs = IF known
                               THEN ErrorPathCallbacks("knownNonRunning", r)
                               ELSE << >>]
  /\ UNCHANGED << sessionRuns, hookVars, replayVars, normVars >>
  /\ UNCHANGED << nonRunningAgentRuns, nCalls, callRun, setupPc, elapsed,
                  startedTerminal, stopVars >>

\* ------------------------------------------------------------- watchdog
\* One firing of the setInterval callback with elapsed > 15000; a firing
\* with less silence does nothing.
WatchdogTick(c) ==
  /\ watchdogInterval[c]
  /\ elapsed > WatchdogTimeoutMs
  /\ LET r == callRun[c]
         known == KnownNonRunning(r) IN
       /\ ~known => InFlight < MaxPending
       /\ pending' =
            IF known THEN pending ELSE [pending EXCEPT ![c].wd = @ + 1]
       /\ elapsed' = 0
       /\ last' = [Event("watchdog", c, r) EXCEPT
                     !.origin = "wd",
                     !.query = IF known THEN "knownNonRunning" ELSE "sent"]
  /\ UNCHANGED << sessionRuns, hookVars, replayVars, normVars >>
  /\ UNCHANGED << nonRunningAgentRuns, activeStreams, nCalls, callRun,
                  setupPc, eventSource, watchdogInterval, onCloseCount,
                  startedTerminal, stopVars >>

\* Time passes without any stream activity until more than the timeout
\* has elapsed since window.lastStreamMessage.
AdvanceTime ==
  /\ elapsed < ElapsedCap
  /\ elapsed' = ElapsedCap
  /\ last' = Event("time", NoCall, NoRun)
  /\ UNCHANGED << sessionRuns, hookVars, replayVars, normVars >>
  /\ UNCHANGED << nonRunningAgentRuns, activeStreams, nCalls, callRun,
                  setupPc, eventSource, watchdogInterval, pending,
                  onCloseCount, startedTerminal, stopVars >>

\* The backend's answer to a query in flight reaches getAgentStatus, whose
\* promise then runs the .then/.catch chain of the handler that issued it.
StatusResponse(c, origin, outcome) ==
  /\ pending[c][origin] > 0
  /\ LET r == callRun[c]
         closes == PathCloses(origin, outcome, r) IN
       /\ pending' = [pending EXCEPT ![c][origin] = @ - 1]
       /\ nonRunningAgentRuns' =
            IF StatusMarksTerminal(outcome) \/ closes
              THEN nonRunningAgentRuns \cup {r} ELSE nonRunningAgentRuns
       /\ eventSource' =
            IF closes THEN [eventSource EXCEPT ![c] = "closed"] ELSE eventSource
       /\ activeStreams' =
            IF closes THEN [activeStreams EXCEPT ![r] = NoCall]
                      ELSE activeStreams
       /\ onCloseCount' =
            IF closes THEN [onCloseCount EXCEPT ![c] = @ + 1] ELSE onCloseCount
       /\ last' = [Event("statusResponse", c, r) EXCEPT
                     !.origin = origin,
                     !.outcome = outcome,
                     !.cbs = PathCallbacks(origin, outcome, r)]
  /\ UNCHANGED << sessionRuns, hookVars, replayVars, normVars >>
  /\ UNCHANGED << nCalls, callRun, setupPc, watchdogInterval, elapsed,
                  startedTerminal, stopVars >>

\* ------------------------------------------------------ returned cleanup
Cleanup(c) ==
  /\ setupPc[c] # "unused"
  /\ LET r == callRun[c] IN
       /\ eventSource' = CloseExisting(eventSource, r)
       /\ activeStreams' = [activeStreams EXCEPT ![r] = NoCall]
       /\ watchdogInterval' = [watchdogInterval EXCEPT ![c] = FALSE]
       /\ last' = Event("cleanup", c, r)
  /\ UNCHANGED << sessionRuns, hookVars, replayVars, normVars >>
  /\ UNCHANGED << nonRunningAgentRuns, nCalls, callRun, setupPc, pending,
                  elapsed, onCloseCount, startedTerminal, stopVars >>

\* -------------------------------------------------------------- stopAgent
\* Variant: the run id is not registered before the request goes out.
StopAgentBegin_NoEarlyMark(r, limit) ==
  /\ stopPc[r].begun < limit
  /\ stopPc[r].await = 0 /\ stopPc[r].fetch = 0
  /\ r \in sessionRuns
  /\ eventSource' = CloseExisting(eventSource, r)
  /\ activeStreams' = [activeStreams EXCEPT ![r] = NoCall]
  /\ stopPc' = [stopPc EXCEPT ![r].begun = @ + 1, ![r].await = @ + 1]
  /\ last' = Event("stopAgent", NoCall, r)
  /\ UNCHANGED << sessionRuns, hookVars, replayVars, normVars >>
  /\ UNCHANGED << nonRunningAgentRuns, nCalls, callRun, setupPc,
                  watchdogInterval, pending, elapsed, onCloseCount,
                  startedTerminal, remoteStops >>

\* Synchronous part: mark terminal, close and forget the run's stream, then
\* suspend at the credential fetch.  The caller awaits one stopAgent call
\* before it makes the next one.
StopAgentBegin(r, limit) ==
  /\ stopPc[r].begun < limit
  /\ stopPc[r].await = 0 /\ stopPc[r].fetch = 0
  /\ r \in sessionRuns
  /\ nonRunningAgentRuns' = nonRunningAgentRuns \cup {r}
  /\ eventSource' = CloseExisting(eventSource, r)
  /\ activeStreams' = [activeStreams EXCEPT ![r] = NoCall]
  /\ stopPc' = [stopPc EXCEPT ![r].begun = @ + 1, ![r].await = @ + 1]
  /\ last' = Event("stopAgent", NoCall, r)
  /\ UNCHANGED << sessionRuns, hookVars, replayVars, normVars >>
  /\ UNCHANGED << nCalls, callRun, setupPc, watchdogInterval, pending,
                  elapsed, onCloseCount, startedTerminal, remoteStops >>

\* getSession resolved: without a token stopAgent throws, with one it
\* issues the POST .../stop request.
StopAgentSession(r, hasToken) ==
  /\ stopPc[r].await > 0
  /\ stopPc' = [stopPc EXCEPT ![r].await = @ - 1,
                              ![r].fetch = IF hasToken THEN @ + 1 ELSE @,
                              ![r].threw = @ \/ ~hasToken]
  /\ remoteStops' =
       IF hasToken THEN [remoteStops EXCEPT ![r] = @ + 1] ELSE remoteStops
  /\ last' = [Event("stopSession", NoCall, r) EXCEPT
                !.outcome = IF hasToken THEN "requestSent" ELSE "throws"]
  /\ UNCHANGED << nonRunningAgentRuns, streamVars, hookVars, replayVars, normVars >>

\* The stop request is answered; !response.ok makes stopAgent throw.
StopAgentResponse(r, ok) ==
  /\ stopPc[r].fetch > 0
  /\ stopPc' = [stopPc EXCEPT ![r].fetch = @ - 1, ![r].threw = @ \/ ~ok]
  /\ last' = [Event("stopResponse", NoCall, r) EXCEPT
                !.outcome = IF ok THEN "returns" ELSE "throws"]
  /\ UNCHANGED << nonRunningAgentRuns, streamVars, remoteStops, hookVars,
                  replayVars, normVars >>

\* ------------------------------------------------- useAgentRun: the store
Range(seq) == {seq[i] : i \in DOMAIN seq}

\* Variant: on a key held by both objects the old value is kept.
Spread_OldWins(old, new) ==
  [k \in DOMAIN old \cup DOMAIN new |->
     IF k \in DOMAIN old THEN old[k] ELSE new[k]]

\* The object literal { ...old, ...new } .
Spread(old, new) ==
  [k \in DOMAIN old \cup DOMAIN new |->
     IF k \in DOMAIN new THEN new[k] ELSE old[k]]

\* The object literal { ...obj, [key]: value } .
WithKey(obj, key, value) ==
  [k \in DOMAIN obj \cup {key} |-> IF k = key THEN value ELSE obj[k]]

\* Variant: the id is appended to order on every arrival.
Upsert_AlwaysAppends(prevState, message) ==
  LET id == message["message_id"]
      old == IF id \in DOMAIN prevState.byId
               THEN prevState.byId[id] ELSE EmptyObject IN
    [prevState EXCEPT
       !.byId = WithKey(prevState.byId, id, Spread(old, message)),
       !.order = Append(prevState.order, id)]

\* The state updater of updateMessage: order.indexOf(message_id) decides
\* between merging into the stored record and appending a new one.
Upsert(prevState, message) ==
  LET id == message["message_id"]
      old == IF id \in DOMAIN prevState.byId
               THEN prevState.byId[id] ELSE EmptyObject IN
    IF id \in Range(prevState.order)
      THEN [prevState EXCEPT
              !.byId = WithKey(prevState.byId, id, Spread(old, message))]
      ELSE [prevState EXCEPT
              !.byId = WithKey(prevState.byId, id, message),
              !.order = Append(prevState.order, id)]

\* run.messages.forEach(updateMessage)
RECURSIVE UpsertAll(_, _)
UpsertAll(prevState, msgs) ==
  IF msgs = << >> THEN prevState
  ELSE UpsertAll(Upsert(prevState, Head(msgs)), Tail(msgs))

\* The list the hook returns:
\* state.order.map(id => state.byId[id]).filter(Boolean)
messages ==
  LET held == SelectSeq(state.order, LAMBDA id : id \in DOMAIN state.byId) IN
    [i \in DOMAIN held |-> state.byId[held[i]]]

\* updateMessage(message), called by the owner of the hook.
UpdateMessage(m) ==
  /\ state' = Upsert(state, m)
  /\ lastOp' = Op("updateMessage", m["message_id"],
                  m["message_id"] \in Range(state.order))
  /\ UNCHANGED << streamCleanupRef, nStarts, startPc, runStream,
                  clearedSince, transportVars, replayVars, normVars >>

\* The cleanup function connectRunStream returned: es.close().
CloseRunStream(rs, k) ==
  IF k # NoStart THEN [rs EXCEPT ![k] = "closed"] ELSE rs

\* startStreaming up to its await import(...): run the stored cleanup
\* (the ref keeps pointing at it), set isStreaming and reset error.
StartStreaming ==
  /\ nStarts < MaxStarts
  /\ LET k == nStarts + 1 IN
       /\ nStarts' = k
       /\ startPc' = [startPc EXCEPT ![k] = "awaitImport"]
       /\ lastOp' = Op("startStreaming", NoId, FALSE)
  /\ runStream' = CloseRunStream(runStream, streamCleanupRef)
  /\ state' = [state EXCEPT !.isStreaming = TRUE, !.error = NoError]
  /\ UNCHANGED << streamCleanupRef, clearedSince, transportVars, replayVars, normVars >>

\* Variant: a failed start goes back to the empty state with the error set.
StartResolved_FailureResets(k, ok) ==
  /\ startPc[k] = "awaitImport"
  /\ IF ok
       THEN /\ startPc' = [startPc EXCEPT ![k] = "connected"]
            /\ runStream' = [runStream EXCEPT ![k] = "open"]
            /\ streamCleanupRef' = k
            /\ lastOp' = Op("connected", NoId, FALSE)
            /\ state' = state
       ELSE /\ startPc' = [startPc EXCEPT ![k] = "failed"]
            /\ state' = [EmptyState EXCEPT
                           !.error = "Failed to start streaming"]
            /\ lastOp' = Op("startFailed", NoId, FALSE)
            /\ UNCHANGED << runStream, streamCleanupRef >>
  /\ UNCHANGED << nStarts, clearedSince, transportVars, replayVars, normVars >>

\* The dynamic import settled.  ok: connectRunStream creates the
\* EventSource and its cleanup is stored in the ref.  Otherwise the catch
\* block records the failure.
StartResolved(k, ok) ==
  /\ startPc[k] = "awaitImport"
  /\ IF ok
       THEN /\ startPc' = [startPc EXCEPT ![k] = "connected"]
            /\ runStream' = [runStream EXCEPT ![k] = "open"]
            /\ streamCleanupRef' = k
            /\ lastOp' = Op("connected", NoId, FALSE)
            /\ state' = state
       ELSE /\ startPc' = [startPc EXCEPT ![k] = "failed"]
            /\ state' = [state EXCEPT
                           !.isStreaming = FALSE,
                           !.error = "Failed to start streaming"]
            /\ lastOp' = Op("startFailed", NoId, FALSE)
            /\ UNCHANGED << runStream, streamCleanupRef >>
  /\ UNCHANGED << nStarts, clearedSince, transportVars, replayVars, normVars >>

\* es.onmessage of connectRunStream: JSON.parse, then onEvent, which is
\* updateMessage; a parse failure is logged and nothing else happens.
RunStreamMessage(k, data) ==
  /\ runStream[k] = "open"
  /\ IF data = Malformed
       THEN /\ lastOp' = Op("parseFailed", NoId, FALSE)
            /\ state' = state
       ELSE /\ state' = Upsert(state, data)
            /\ lastOp' = Op("streamMessage", data["message_id"],
                            data["message_id"] \in Range(state.order))
  /\ UNCHANGED << streamCleanupRef, nStarts, startPc, runStream,
                  clearedSince, transportVars, replayVars, normVars >>

\* stopStreaming()
StopStreaming ==
  /\ runStream' = CloseRunStream(runStream, streamCleanupRef)
  /\ streamCleanupRef' = NoStart
  /\ state' = [state EXCEPT !.isStreaming = FALSE]
  /\ lastOp' = Op("stopStreaming", NoId, FALSE)
  /\ UNCHANGED << nStarts, startPc, clearedSince, transportVars, replayVars, normVars >>

\* loadRun after its fetch settled.  ok: the run's messages are upserted
\* one by one; otherwise the catch block records the failure.
LoadRun(ok, msgs) ==
  /\ IF ok
       THEN /\ state' = UpsertAll(state, msgs)
            /\ lastOp' = Op("loadRun", NoId, FALSE)
       ELSE /\ msgs = << >>
            /\ state' = [state EXCEPT !.error = "Failed to load run"]
            /\ lastOp' = Op("loadFailed", NoId, FALSE)
  /\ UNCHANGED << streamCleanupRef, nStarts, startPc, runStream,
                  clearedSince, transportVars, replayVars, normVars >>

\* Variant: clear() resets byId and leaves order as it is.
Clear_KeepsOrder ==
  /\ runStream' = CloseRunStream(runStream, streamCleanupRef)
  /\ streamCleanupRef' = NoStart
  /\ state' = [EmptyState EXCEPT !.order = state.order]
  /\ clearedSince' = [k \in Starts |-> startPc[k] # "unused"]
  /\ lastOp' = Op("clear", NoId, FALSE)
  /\ UNCHANGED << nStarts, startPc, transportVars, replayVars, normVars >>

\* clear(): stopStreaming(), then the state is replaced by the empty one.
Clear ==
  /\ runStream' = CloseRunStream(runStream, streamCleanupRef)
  /\ streamCleanupRef' = NoStart
  /\ state' = EmptyState
  /\ clearedSince' = [k \in Starts |-> startPc[k] # "unused"]
  /\ lastOp' = Op("clear", NoId, FALSE)
  /\ UNCHANGED << nStarts, startPc, transportVars, replayVars, normVars >>

\* ---------------------------------------------------- SharePage: playback
Min(a, b) == IF a < b THEN a ELSE b

Max(a, b) == IF a > b THEN a ELSE b

\* text.substring(0, n)
Substring(text, n) == SubSeq(text, 1, Min(n, Len(text)))

\* Position of the first "]" of text at or after from, 0 if there is none.
RECURSIVE FirstClose(_, _)
FirstClose(text, from) ==
  IF from > Len(text) THEN 0
  ELSE IF text[from] = "]" THEN from
  ELSE FirstClose(text, from + 1)

\* text.replace(/\[Uploaded File: .*?\]/g, ''): every opening piece that
\* has a closing bracket after it is removed up to its first one.
RECURSIVE StripMarkers(_)
StripMarkers(text) ==
  IF text = << >> THEN << >>
  ELSE IF Head(text) = "[U" /\ FirstClose(text, 2) > 0
    THEN StripMarkers(SubSeq(text, FirstClose(text, 2) + 1, Len(text)))
  ELSE << Head(text) >> \o StripMarkers(Tail(text))

\* String.prototype.trim
RECURSIVE Trim(_)
Trim(text) ==
  IF text = << >> THEN << >>
  ELSE IF Head(text) = " " THEN Trim(Tail(text))
  ELSE IF text[Len(text)] = " " THEN Trim(SubSeq(text, 1, Len(text) - 1))
  ELSE text

\* parseAttachments(text).clean
Clean(text) == Trim(StripMarkers(text))

\* The text rendered for the message at currentMessageIndex:
\* shouldShowStreaming ? streamingText : clean
DisplayContent ==
  IF isPlaying /\ ~isStreamingComplete
    THEN streamingText
    ELSE Clean(thread.messages[currentMessageIndex + 1])

\* Is the reveal of the interval's message under way and unfinished.
MidReveal ==
  /\ streamingInterval.live
  /\ streamingInterval.charIndex > 0
  /\ streamingInterval.charIndex
       < Len(thread.messages[streamingInterval.msg + 1])

\* loadThread (effect on mount): getSharedThread resolved with messages.
\* Each message is mapped inside the try block, its metadata through
\* JSON.parse when it has any; malformedAt is the position of the message
\* whose metadata is not JSON, 0 when there is none.  A parse error leaves
\* the map for the catch block, which sets the error and no thread.
LoadThread(history, malformedAt) ==
  /\ ~thread.loaded
  /\ malformedAt <= Len(history)
  /\ IF malformedAt = 0
       THEN /\ thread' = [loaded |-> TRUE, messages |-> history]
            /\ lastPlayback' = Playback("load", 0, FALSE)
       ELSE /\ thread' = thread
            /\ lastPlayback' = Playback("loadFailed", Len(history) - 1, FALSE)
  /\ UNCHANGED << isPlaying, currentMessageIndex, streamingText,
                  isStreamingComplete, streamingInterval, settleTimeouts,
                  transportVars, hookVars, normVars >>

\* startPlayback(): nothing without a thread or while playing; otherwise
\* playNextMessage starts the reveal interval of the current message, or
\* ends playback when the history is exhausted.
StartPlayback ==
  /\ thread.loaded
  /\ ~isPlaying
  /\ IF currentMessageIndex < Len(thread.messages)
       THEN /\ isPlaying' = TRUE
            /\ streamingText' = << >>
            /\ isStreamingComplete' = FALSE
            /\ streamingInterval' =
                 [live |-> TRUE, msg |-> currentMessageIndex, charIndex |-> 0]
       ELSE /\ isPlaying' = FALSE
            /\ isStreamingComplete' = TRUE
            /\ UNCHANGED << streamingText, streamingInterval >>
  /\ lastPlayback' = Playback("play", currentMessageIndex, FALSE)
  /\ UNCHANGED << thread, currentMessageIndex, settleTimeouts, transportVars,
                  hookVars, normVars >>

\* streamMessage, the callback of the reveal interval: one more character,
\* or, at the end of the text, stop the interval and schedule the settle
\* timeout.
RevealTick ==
  /\ streamingInterval.live
  /\ LET content == thread.messages[streamingInterval.msg + 1]
         charIndex == streamingInterval.charIndex IN
       IF charIndex < Len(content)
         THEN /\ streamingText' = Substring(content, charIndex + 1)
              /\ streamingInterval' =
                   [streamingInterval EXCEPT !.charIndex = charIndex + 1]
              /\ UNCHANGED << isStreamingComplete, settleTimeouts >>
         ELSE /\ settleTimeouts < MaxSettle
              /\ isStreamingComplete' = TRUE
              /\ streamingInterval' = NoInterval
              /\ settleTimeouts' = settleTimeouts + 1
              /\ UNCHANGED streamingText
  /\ lastPlayback' = Playback("reveal", streamingInterval.msg, FALSE)
  /\ UNCHANGED << thread, isPlaying, currentMessageIndex, transportVars,
                  hookVars, normVars >>

\* The settle timeout fires: on to the next message.
SettleFires ==
  /\ settleTimeouts > 0
  /\ settleTimeouts' = settleTimeouts - 1
  /\ currentMessageIndex' = currentMessageIndex + 1
  /\ streamingText' = << >>
  /\ isStreamingComplete' = FALSE
  /\ lastPlayback' = Playback("settle", 0, FALSE)
  /\ UNCHANGED << thread, isPlaying, streamingInterval, transportVars,
                  hookVars, normVars >>

\* pausePlayback()
PausePlayback ==
  /\ thread.loaded
  /\ isPlaying' = FALSE
  /\ streamingInterval' = NoInterval
  /\ lastPlayback' = Playback("pause", 0, MidReveal)
  /\ UNCHANGED << thread, currentMessageIndex, streamingText,
                  isStreamingComplete, settleTimeouts, transportVars,
                  hookVars, normVars >>

\* resetPlayback()
ResetPlayback ==
  /\ thread.loaded
  /\ isPlaying' = FALSE
  /\ currentMessageIndex' = 0
  /\ streamingText' = << >>
  /\ isStreamingComplete' = FALSE
  /\ streamingInterval' = NoInterval
  /\ lastPlayback' = Playback("reset", 0, FALSE)
  /\ UNCHANGED << thread, settleTimeouts, transportVars, hookVars, normVars >>

\* Variant: the index is clamped to the length of the history.
SkipToMessage_ClampsToLength(index) ==
  /\ thread.loaded
  /\ isPlaying' = FALSE
  /\ streamingInterval' = NoInterval
  /\ currentMessageIndex' = Max(0, Min(index, Len(thread.messages)))
  /\ streamingText' = << >>
  /\ isStreamingComplete' = FALSE
  /\ lastPlayback' = Playback("skip", index, FALSE)
  /\ UNCHANGED << thread, settleTimeouts, transportVars, hookVars, normVars >>

\* skipToMessage(index): nothing without a thread; otherwise
\* pausePlayback(), then the clamped index.
SkipToMessage(index) ==
  /\ thread.loaded
  /\ isPlaying' = FALSE
  /\ streamingInterval' = NoInterval
  /\ currentMessageIndex' = Max(0, Min(index, Len(thread.messages) - 1))
  /\ streamingText' = << >>
  /\ isStreamingComplete' = FALSE
  /\ lastPlayback' = Playback("skip", index, FALSE)
  /\ UNCHANGED << thread, settleTimeouts, transportVars, hookVars, normVars >>

\* --------------------------------------------- normalizeMessage: operators
\* JavaScript truthiness of a scalar property and of a value.
Truthy(v) == v # NoValue /\ v # ""

TruthyValue(val) ==
  val.kind = "object" \/ (val.kind = "string" /\ val.text # << >>)

\* obj[key]: the value of the last pair with that key, or undefined
Get(obj, key) ==
  LET hits == {i \in DOMAIN obj.pairs :
                 obj.pairs[i].k = key /\ obj.pairs[i].t # "in"} IN
    IF hits = {} THEN NoValue
    ELSE obj.pairs[CHOOSE i \in hits : \A j \in hits : j <= i].v

\* obj.hasOwnProperty(key)
Has(obj, key) ==
  \E i \in DOMAIN obj.pairs :
     \/ (obj.pairs[i].k = key /\ obj.pairs[i].t # "in")
     \/ (obj.pairs[i].t = "in" /\ obj.pairs[i].name = << key >>)

\* obj[parent]: the object held by a property, undefined without one
ObjectAt(obj, parent) ==
  LET inner == {i \in DOMAIN obj.pairs :
                  obj.pairs[i].t = "in" /\ obj.pairs[i].name = << parent >>}
      IsInner(tok) == tok.t = "in" /\ tok.name = << parent >>
      AsPair(tok) == Pair(tok.k, tok.v)
      kept == SelectSeq(obj.pairs, IsInner)
  IN IF inner = {} THEN Undefined
     ELSE Obj([i \in DOMAIN kept |-> AsPair(kept[i])])

\* A property value used as content or output.
ValueOf(v) == IF v = NoValue THEN Undefined ELSE Str(<< Text(v) >>)

\* JSON.parse(val): succeeds on the text of an object, "{" pairs "}", where
\* white space is skipped; throws (ok = FALSE) on every other argument of
\* the universe, undefined and objects included.
JsonParse(val) ==
  LET n == Len(val.text)
      IsNotWs(tok) == tok.t # "ws"
      body == SelectSeq(SubSeq(val.text, 2, n - 1), IsNotWs)
  IN IF /\ val.kind = "string"
        /\ n >= 2
        /\ val.text[1].t = "{"
        /\ val.text[n].t = "}"
        /\ \A i \in DOMAIN body : body[i].t \in {"pair", "nested", "in"}
     THEN [ok |-> TRUE, value |-> Obj(body)]
     ELSE [ok |-> FALSE, value |-> Undefined]

\* JSON.stringify(val): the compact text of an object, a string in quotes,
\* undefined for undefined.
JsonStringify(val) ==
  IF val.kind = "object"
  THEN Str(<< OpenBrace >> \o val.pairs \o << CloseBrace >>)
  ELSE IF val.kind = "string"
  THEN Str(<< Token("quote", "", "", << >>) >> \o val.text
         \o << Token("quote", "", "", << >>) >>)
  ELSE Undefined

RECURSIVE JoinName(_)
JoinName(name) ==
  IF name = << >> THEN "" ELSE Head(name) \o JoinName(Tail(name))

\* str.includes(word), for the words the normalizer looks for: a key, a
\* value or the name of a marker.
Includes(val, word) ==
  \E i \in DOMAIN val.text :
     \/ val.text[i].k = word
     \/ val.text[i].v = word
     \/ (val.text[i].name # << >> /\ JoinName(val.text[i].name) = word)

\* content.match(/<tool_result[^>]*>(.*?)<\/tool_result>/gs): with the g
\* flag the array holds the full text of every match, no capture group.
RECURSIVE ToolResultMatches(_)
ToolResultMatches(text) ==
  LET opens == {i \in DOMAIN text :
                  text[i].t = "tag" /\ text[i].name = ToolResultName}
  IN IF opens = {} THEN << >>
     ELSE
       LET i == CHOOSE o \in opens : \A p \in opens : o <= p
           closes == {j \in DOMAIN text :
                        /\ j > i
                        /\ text[j].t = "endtag"
                        /\ text[j].name = ToolResultName}
       IN IF closes = {} THEN << >>
          ELSE
            LET j == CHOOSE c \in closes : \A d \in closes : c <= d IN
              << Str(SubSeq(text, i, j)) >>
                \o ToolResultMatches(SubSeq(text, j + 1, Len(text)))

\* The capture of /<([a-zA-Z-]+)/ in a marker name: its letters and hyphens
\* up to the first other character.
RECURSIVE Capture(_)
Capture(name) ==
  IF name = << >> \/ Head(name) = "_" THEN << >>
  ELSE << Head(name) >> \o Capture(Tail(name))

\* xmlMatch[1].replace('-', '_'): the first hyphen only
RECURSIVE ReplaceFirstHyphen(_)
ReplaceFirstHyphen(name) ==
  IF name = << >> THEN << >>
  ELSE IF Head(name) = "-" THEN << "_" >> \o Tail(name)
  ELSE << Head(name) >> \o ReplaceFirstHyphen(Tail(name))

\* content.match(/<([a-zA-Z-]+)/): the first opening marker
XmlMatch(text) ==
  LET tags == {i \in DOMAIN text :
                 text[i].t = "tag" /\ Capture(text[i].name) # << >>}
  IN IF tags = {} THEN NoValue
     ELSE JoinName(ReplaceFirstHyphen(
            Capture(text[CHOOSE i \in tags : \A j \in tags : i <= j].name)))

\* content.match(/"function_name":\s*"([^"]+)"/)
FuncMatch(text) ==
  LET hits == {i \in DOMAIN text :
                 /\ text[i].t = "pair"
                 /\ text[i].k = "function_name"
                 /\ text[i].v # ""}
  IN IF hits = {} THEN NoValue
     ELSE text[CHOOSE i \in hits : \A j \in hits : i <= j].v

\* extractToolName(message, content); threw: JSON.parse(message.metadata)
\* threw.
extractToolName(message, content) ==
  LET parsed == JsonParse(message.metadata)
      metadata == IF message.metadata.kind = "string" THEN parsed.value
                  ELSE message.metadata
      toolName == Get(metadata, "tool_name")
      functionName == Get(metadata, "function_name")
  IN IF /\ TruthyValue(message.metadata)
        /\ message.metadata.kind = "string"
        /\ ~parsed.ok
     THEN [threw |-> TRUE, name |-> NoValue]
     ELSE IF /\ TruthyValue(message.metadata)
             /\ (Truthy(toolName) \/ Truthy(functionName))
     THEN [threw |-> FALSE,
           name |-> IF Truthy(toolName) THEN toolName ELSE functionName]
     ELSE IF content.kind = "string" /\ XmlMatch(content.text) # NoValue
     THEN [threw |-> FALSE, name |-> XmlMatch(content.text)]
     ELSE IF content.kind = "string" /\ FuncMatch(content.text) # NoValue
     THEN [threw |-> FALSE, name |-> FuncMatch(content.text)]
     ELSE [threw |-> FALSE, name |-> "unknown"]

\* message.id || message.message_id || generateId()
IdOf(message, fresh) ==
  IF Truthy(message.id) THEN message.id
  ELSE IF Truthy(message.message_id) THEN message.message_id
  ELSE fresh

\* message.id || generateId()
IdOrFresh(message, fresh) == IF Truthy(message.id) THEN message.id ELSE fresh

\* parseToolMessage(message, content): found = FALSE is the null result,
\* which is also what an exception in extractToolName ends in.
parseToolMessage(message, content, fresh) ==
  LET none == [found |-> FALSE, value |-> NotNormalized]
      id == IdOrFresh(message, fresh)
      match == ToolResultMatches(content.text)
      match1 == IF Len(match) >= 2 THEN match[2] ELSE Undefined
      resultData == JsonParse(match1)
      name == extractToolName(message, content)
      escaped == JsonParse(content)
  IN IF /\ content.kind = "string"
        /\ Includes(content, JoinName(ToolResultName))
        /\ match # << >>
     THEN
       IF resultData.ok /\ Truthy(Get(resultData.value, "tool"))
       THEN [found |-> TRUE,
             value |-> Normalized(id, "tool_result", Undefined,
                         Get(resultData.value, "tool"),
                         IF Truthy(Get(resultData.value, "output"))
                         THEN ValueOf(Get(resultData.value, "output"))
                         ELSE resultData.value,
                         Null)]
       ELSE IF name.threw THEN none
       ELSE [found |-> TRUE,
             value |-> Normalized(id, "tool_result", Undefined, name.name,
                         IF ~resultData.ok THEN match1
                         ELSE IF Truthy(Get(resultData.value, "output"))
                         THEN ValueOf(Get(resultData.value, "output"))
                         ELSE resultData.value,
                         Null)]
     ELSE IF /\ content.kind = "string"
             /\ content.text # << >>
             /\ (content.text[1].t = "{" \/ Includes(content, "role:"))
             /\ escaped.ok
             /\ Get(escaped.value, "type") = "tool_call"
     THEN [found |-> TRUE,
           value |-> Normalized(id, "tool_call", Undefined,
                       Get(escaped.value, "tool"), Undefined, Null)]
     ELSE IF /\ content.kind = "string"
             /\ content.text # << >>
             /\ (content.text[1].t = "{" \/ Includes(content, "role:"))
             /\ escaped.ok
             /\ Get(escaped.value, "type") = "tool_result"
     THEN [found |-> TRUE,
           value |-> Normalized(id, "tool_result", Undefined,
                       Get(escaped.value, "tool"),
                       ValueOf(Get(escaped.value, "output")), Null)]
     ELSE none

\* detectMessageType(content): found = FALSE is the null result.
detectMessageType(content, fresh) ==
  LET contentStr == IF content.kind = "string" THEN content
                    ELSE JsonStringify(content)
      parse == IF content.kind = "string" THEN JsonParse(content)
               ELSE [ok |-> TRUE, value |-> content]
      parsed == parse.value
  IN IF ~TruthyValue(content) THEN [found |-> FALSE, value |-> NotNormalized]
     ELSE IF /\ (Includes(contentStr, "tool_call")
                   \/ Includes(contentStr, "function_name"))
             /\ parse.ok
             /\ (Get(parsed, "type") = "tool_call"
                   \/ Truthy(Get(parsed, "function_name")))
     THEN [found |-> TRUE,
           value |-> Normalized(fresh, "tool_call", Undefined,
                       IF Truthy(Get(parsed, "tool")) THEN Get(parsed, "tool")
                       ELSE Get(parsed, "function_name"),
                       Undefined, Null)]
     ELSE IF /\ (Includes(contentStr, "tool_result")
                   \/ Includes(contentStr, "success")
                   \/ Includes(contentStr, "output"))
             /\ parse.ok
             /\ (Get(parsed, "type") = "tool_result"
                   \/ (Has(parsed, "success") /\ Has(parsed, "output")))
     THEN [found |-> TRUE,
           value |-> Normalized(fresh, "tool_result", Undefined,
                       IF Truthy(Get(parsed, "tool")) THEN Get(parsed, "tool")
                       ELSE "unknown",
                       ValueOf(Get(parsed, "output")), Null)]
     ELSE [found |-> FALSE, value |-> NotNormalized]

\* The message as an object: its scalar properties, and content and
\* metadata as nested properties where it has them.
ObjectOf(message) ==
  LET IsPresent(tok) == tok.t = "nested" \/ tok.v # NoValue IN
  Obj(SelectSeq(
        << Pair("type", message.type), Pair("role", message.role),
           Pair("id", message.id), Pair("message_id", message.message_id) >>
        \o (IF message.content = Undefined THEN << >>
            ELSE << Nested("content") >>)
        \o (IF message.metadata = Undefined THEN << >>
            ELSE << Nested("metadata") >>),
        IsPresent))

\* `Error normalizing message: ${error}`
ErrorText == Str(<< Text("Error normalizing message: SyntaxError") >>)

\* The types normalizeMessage returns as they are.
CanonicalTypes_WithoutUser ==
  {"assistant", "tool_call", "tool_result", "tool_start", "tool_error",
   "status"}

CanonicalTypes ==
  {"user", "assistant", "tool_call", "tool_result", "tool_start",
   "tool_error", "status"}

\* normalizeMessage(message), with fresh the value generateId() returns in
\* this call.  The branches of explicit status, tool_start, tool_result and
\* tool_error types come after the return of the canonical types and are
\* never entered.  Of the NormalizedMessage the fields id, type, content,
\* tool, output and raw are kept.
normalizeMessage(message, fresh) ==
  IF message = Null
  THEN Normalized(fresh, "unknown", Undefined, NoValue, Undefined, Null)
  ELSE IF message.type \in CanonicalTypes
  THEN Normalized(IdOf(message, fresh), message.type, message.content,
                  NoValue, Undefined, Null)
  ELSE
    LET id == IdOf(message, fresh)
        parsed == JsonParse(message.content)
        content == IF parsed.ok THEN parsed.value ELSE message.content
        toolMessage == parseToolMessage(message, content, fresh)
        toolName == extractToolName(message, content)
        detectedType ==
          detectMessageType(IF TruthyValue(content) THEN content
                            ELSE ObjectOf(message), fresh)
        textContent ==
          IF content.kind = "string" THEN content
          ELSE IF content.kind = "object" /\ Truthy(Get(content, "content"))
          THEN ValueOf(Get(content, "content"))
          ELSE JsonStringify(content)
        metadataThrows ==
          /\ TruthyValue(message.metadata)
          /\ message.metadata.kind = "string"
          /\ ~JsonParse(message.metadata).ok
        caught == Normalized(fresh, "unknown", ErrorText, NoValue, Undefined,
                             message)
    IN IF message.type = "tool" \/ message.role = "tool"
       THEN IF toolMessage.found THEN toolMessage.value
            ELSE IF toolName.threw \/ metadataThrows THEN caught
            ELSE Normalized(id, "tool_result", Undefined, toolName.name,
                            IF TruthyValue(content) THEN content
                            ELSE Undefined,
                            message)
       ELSE IF message.type = "user" \/ message.role = "user"
       THEN IF metadataThrows THEN caught
            ELSE Normalized(id, "user", textContent, NoValue, Undefined,
                            message)
       ELSE IF message.type = "assistant" \/ message.role = "assistant"
       THEN IF metadataThrows THEN caught
            ELSE Normalized(id, "assistant", textContent, NoValue, Undefined,
                            message)
       ELSE IF detectedType.found THEN detectedType.value
       ELSE IF metadataThrows THEN caught
       ELSE Normalized(id, "unknown", JsonStringify(ObjectOf(message)),
                       NoValue, Undefined, message)

\* One raw event arrives and is normalized.
NormalizeMessage(message) ==
  /\ norm.calls = 0
  /\ norm' = [calls |-> 1, raw |-> message,
              first |-> normalizeMessage(message, GeneratedIds[1]),
              second |-> NotNormalized, model |-> NoToolModel]
  /\ UNCHANGED << transportVars, hookVars, replayVars >>

\* The same event arrives again and is normalized again.
NormalizeAgain ==
  /\ norm.calls = 1
  /\ norm' = [norm EXCEPT !.calls = 2,
                          !.second = normalizeMessage(norm.raw,
                                                      GeneratedIds[2])]
  /\ UNCHANGED << transportVars, hookVars, replayVars >>

\* ------------------------------------------------------------ getToolModel
\* parseMaybeJSON(raw): undefined for nothing and for what JSON.parse
\* throws on, an object among these.
parseMaybeJSON(raw) ==
  IF ~TruthyValue(raw) THEN Undefined
  ELSE IF JsonParse(raw).ok THEN JsonParse(raw).value
  ELSE Undefined

\* msg._content: normalizeMessage sets it, to the object parsed from string
\* content, on the path where it also sets raw and does not end in the
\* catch; the messages it returns on other paths have none.
ParsedContent(msg) ==
  IF msg.raw # Null /\ msg.content # ErrorText
  THEN JsonParse(msg.raw.content).value
  ELSE Undefined

\* c[key] || c.result?.[key]
OrInResult(c, key) ==
  IF Truthy(Get(c, key)) THEN Get(c, key)
  ELSE IF ObjectAt(c, "result") = Undefined THEN NoValue
  ELSE Get(ObjectAt(c, "result"), key)

\* getToolModel(msg); msg.arguments, msg.error and msg.timestamp are absent
\* from every message normalizeMessage returns for the universe.
getToolModel(msg) ==
  LET contentObj == parseMaybeJSON(msg.content)
      c == IF TruthyValue(ParsedContent(msg)) THEN ParsedContent(msg)
           ELSE IF TruthyValue(contentObj) THEN contentObj
           ELSE Obj(<< >>)
  IN ToolModel(msg.id, msg.type,
               IF Truthy(Get(c, "tag")) THEN Get(c, "tag") ELSE msg.tool,
               ObjectAt(c, "attrs"),
               IF ObjectAt(c, "result") # Undefined THEN ObjectAt(c, "result")
               ELSE IF Truthy(Get(c, "result")) THEN ValueOf(Get(c, "result"))
               ELSE msg.output,
               Get(c, "error"),
               OrInResult(c, "logs"),
               OrInResult(c, "path"),
               OrInResult(c, "workspace"),
               OrInResult(c, "mode"))

\* ToolMessageRenderer: the tool model of a normalized tool message.
GetToolModel ==
  /\ norm.calls = 1
  /\ norm.model = NoToolModel
  /\ norm.first.type \in {"tool_start", "tool_result", "tool_error"}
  /\ norm' = [norm EXCEPT !.model = getToolModel(norm.first)]
  /\ UNCHANGED << transportVars, hookVars, replayVars >>

\* ------------------------------------------------------- specifications
\* Handlers of one subscription: everything but streamAgent and stopAgent.
HandlerNext ==
  \/ \E c \in Calls, hasToken \in BOOLEAN : SetupStream(c, hasToken)
  \/ \E c \in Calls, payload \in Payloads, cbThrows \in BOOLEAN :
       OnMessage(c, payload, cbThrows)
  \/ \E c \in Calls : OnOpen(c)
  \/ \E c \in Calls : OnError(c)
  \/ \E c \in Calls : WatchdogTick(c)
  \/ AdvanceTime
  \/ \E c \in Calls, origin \in {"wd", "err"}, outcome \in StatusOutcomes :
       StatusResponse(c, origin, outcome)
  \/ \E c \in Calls : Cleanup(c)

\* The stream transport.
Next ==
  \/ \E r \in Runs : StreamAgent(r, MaxCalls)
  \/ HandlerNext

Spec == Init /\ [][Next]_vars

\* Repeated streamAgent calls racing with their asynchronous setup.
RaceNext ==
  \/ \E r \in Runs : StreamAgent(r, MaxRaceCalls)
  \/ \E c \in Calls, hasToken \in BOOLEAN : SetupStream(c, hasToken)
  \/ \E c \in Calls, payload \in Payloads, cbThrows \in BOOLEAN :
       OnMessage(c, payload, cbThrows)
  \/ \E c \in Calls : Cleanup(c)

SpecRace == Init /\ [][RaceNext]_vars

\* stopAgent against a subscription and its liveness queries.
StopNext ==
  \/ \E r \in Runs : StreamAgent(r, MaxCalls)
  \/ \E c \in Calls, hasToken \in BOOLEAN : SetupStream(c, hasToken)
  \/ \E c \in Calls : OnError(c)
  \/ \E c \in Calls : WatchdogTick(c)
  \/ AdvanceTime
  \/ \E c \in Calls, origin \in {"wd", "err"}, outcome \in StatusOutcomes :
       StatusResponse(c, origin, outcome)
  \/ \E r \in Runs : StopAgentBegin(r, MaxStops)
  \/ \E r \in Runs, hasToken \in BOOLEAN : StopAgentSession(r, hasToken)
  \/ \E r \in Runs, ok \in BOOLEAN : StopAgentResponse(r, ok)

SpecStop == Init /\ [][StopNext]_vars

\* Liveness handling alone: transport errors, watchdog and their queries.
LivenessNext ==
  \/ \E r \in Runs : StreamAgent(r, MaxCalls)
  \/ \E c \in Calls, hasToken \in BOOLEAN : SetupStream(c, hasToken)
  \/ \E c \in Calls : OnOpen(c)
  \/ \E c \in Calls : OnError(c)
  \/ \E c \in Calls : WatchdogTick(c)
  \/ AdvanceTime
  \/ \E c \in Calls, origin \in {"wd", "err"}, outcome \in StatusOutcomes :
       StatusResponse(c, origin, outcome)

SpecLiveness == Init /\ [][LivenessNext]_vars

\* Every operation that touches the registries.
RegistryNext ==
  \/ \E r \in Runs : StreamAgent(r, MaxCalls)
  \/ \E c \in Calls, hasToken \in BOOLEAN : SetupStream(c, hasToken)
  \/ \E c \in Calls, payload \in Payloads, cbThrows \in BOOLEAN :
       OnMessage(c, payload, cbThrows)
  \/ \E c \in Calls : OnError(c)
  \/ \E c \in Calls, origin \in {"wd", "err"},
        outcome \in StatusOutcomes : StatusResponse(c, origin, outcome)
  \/ \E c \in Calls : Cleanup(c)
  \/ \E r \in Runs : StopAgentBegin(r, MaxStops)
  \/ \E r \in Runs, hasToken \in BOOLEAN : StopAgentSession(r, hasToken)
  \/ \E r \in Runs, ok \in BOOLEAN : StopAgentResponse(r, ok)

SpecRegistry == Init /\ [][RegistryNext]_vars

\* stopAgent called again after an earlier call has finished.
RepeatStopNext ==
  \/ \E r \in Runs : StreamAgent(r, MaxCalls)
  \/ \E c \in Calls, hasToken \in BOOLEAN : SetupStream(c, hasToken)
  \/ \E c \in Calls : OnOpen(c)
  \/ \E r \in Runs : StopAgentBegin(r, MaxRepeatStops)
  \/ \E r \in Runs, hasToken \in BOOLEAN : StopAgentSession(r, hasToken)
  \/ \E r \in Runs, ok \in BOOLEAN : StopAgentResponse(r, ok)

SpecRepeatStop == Init /\ [][RepeatStopNext]_vars

\* Two runs followed at the same time, each by its own subscription.
TwoRunNext ==
  \/ \E r \in Runs : StreamAgent(r, MaxRaceCalls)
  \/ \E c \in Calls, hasToken \in BOOLEAN : SetupStream(c, hasToken)
  \/ \E c \in Calls, payload \in Payloads, cbThrows \in BOOLEAN :
       OnMessage(c, payload, cbThrows)
  \/ \E c \in Calls : WatchdogTick(c)
  \/ AdvanceTime

SpecTwoRuns == InitWith({Runs}) /\ [][TwoRunNext]_vars

\* One useAgentRun instance following one run.
HookInit == Init /\ sessionRuns = {"run-a"}

HookNext ==
  \/ \E m \in AgentMessages : UpdateMessage(m)
  \/ StartStreaming
  \/ \E k \in Starts, ok \in BOOLEAN : StartResolved(k, ok)
  \/ \E k \in Starts, data \in AgentMessages \cup {Malformed} :
       RunStreamMessage(k, data)
  \/ StopStreaming
  \/ \E ok \in BOOLEAN, msgs \in LoadLists : LoadRun(ok, msgs)
  \/ Clear

SpecHook == HookInit /\ [][HookNext]_vars

\* The hook's history against its two failing operations.
HookFailureNext ==
  \/ \E m \in AgentMessages : UpdateMessage(m)
  \/ StartStreaming
  \/ \E k \in Starts, ok \in BOOLEAN : StartResolved(k, ok)
  \/ \E ok \in BOOLEAN, msgs \in LoadLists : LoadRun(ok, msgs)

SpecHookFailure == HookInit /\ [][HookFailureNext]_vars

\* The share page: playback controls and their timers.
ReplayNext ==
  \/ \E history \in Histories, malformedAt \in 0..MaxMessages :
       LoadThread(history, malformedAt)
  \/ StartPlayback
  \/ RevealTick
  \/ SettleFires
  \/ PausePlayback
  \/ ResetPlayback
  \/ \E index \in SkipArgs : SkipToMessage(index)

SpecReplay == HookInit /\ [][ReplayNext]_vars

\* The timers of the share page fire when they are due.
SpecReplayFair ==
  /\ HookInit
  /\ [][ReplayNext]_vars
  /\ WF_vars(RevealTick)
  /\ WF_vars(SettleFires)

\* The message normalizer: an event is normalized, and once more.
NormalizeNext ==
  \/ \E message \in RawEvents : NormalizeMessage(message)
  \/ NormalizeAgain

SpecNormalize == HookInit /\ [][NormalizeNext]_vars

\* Tool events are normalized and rendered through their tool model.
ToolModelNext ==
  \/ \E message \in ToolEvents : NormalizeMessage(message)
  \/ GetToolModel

SpecToolModel == HookInit /\ [][ToolModelNext]_vars

\* ================================================================ claims
OpenFor(r) == {c \in Calls : callRun[c] = r /\ eventSource[c] = "open"}

\* C1: for every run id at most one EventSource is open at any time, under
\* every interleaving of streamAgent calls with their asynchronous setup.
C1_AtMostOneOpenPerRun == \A r \in Runs : Cardinality(OpenFor(r)) <= 1

\* C2: callbacks.onClose is invoked at most once per subscription.
C2_OnCloseAtMostOnce == \A c \in Calls : onCloseCount[c] <= 1

\* C3: a streamAgent call made while its run id is in nonRunningAgentRuns
\* creates no EventSource and adds no activeStreams entry.
C3_NoSubscriptionForTerminalRun ==
  \A c \in Calls :
    startedTerminal[c] =>
      (eventSource[c] = "none" /\ activeStreams[callRun[c]] # c)

\* A status event with the completion marker and neither finality marker
\* (and neither the heartbeat nor the run-not-found text, which are tested
\* for first).
IsBareCompletion(payload) ==
  /\ TypeStatus \in payload
  /\ StatusCompleted \in payload
  /\ ~HasFinalMarker(payload)
  /\ Ping \notin payload
  /\ Blank \notin payload
  /\ NotFoundText \notin payload

HandledBareCompletion(ev) ==
  ev.kind = "message" /\ IsBareCompletion(ev.payload) /\ ~ev.threw

HasTerminalSignal(payload) ==
  \/ NotFoundText \in payload
  \/ (TypeStatus \in payload /\ StatusCompleted \in payload
        /\ HasFinalMarker(payload))
  \/ (TypeStatus \in payload /\ ThreadRunEnd \in payload)

IsSubstantive(payload) == Ping \notin payload /\ Blank \notin payload

\* C5: after the handler of a substantive message carrying at least one
\* terminal signal returns, the run id is in nonRunningAgentRuns, the
\* EventSource is closed and the run id is absent from activeStreams.
C5_TerminalSignalEndsRun ==
  ( /\ last.kind = "message"
    /\ ~last.threw
    /\ IsSubstantive(last.payload)
    /\ HasTerminalSignal(last.payload) )
  => ( /\ last.run \in nonRunningAgentRuns
       /\ eventSource[last.call] = "closed"
       /\ activeStreams[last.run] = NoCall )

\* Results of a liveness query that confirm the run is not running.
ConfirmsNotRunning(outcome) == outcome \in {"completed", "http404"}

\* C6: an EventSource error event does not close the connection by itself:
\* the step that sends the query leaves the connection, activeStreams and
\* the onClose count alone; the answer "running" leaves them alone too; and
\* the error path closes only on a confirmation that the run is not running
\* (from the backend, or from the terminal set when the query is refused).
C6_ErrorClosesOnlyOnConfirmation ==
  [][ \A c \in Calls :
        /\ (last'.kind = "error" /\ last'.call = c /\ last'.query = "sent")
             => ( /\ eventSource' = eventSource
                  /\ activeStreams' = activeStreams
                  /\ onCloseCount' = onCloseCount )
        /\ (last'.kind = "error" /\ last'.call = c
              /\ eventSource'[c] # eventSource[c])
             => callRun[c] \in nonRunningAgentRuns
        /\ (last'.kind = "statusResponse" /\ last'.origin = "err"
              /\ last'.call = c /\ last'.outcome = "running")
             => ( /\ eventSource' = eventSource
                  /\ activeStreams' = activeStreams
                  /\ onCloseCount' = onCloseCount )
        /\ (last'.kind = "statusResponse" /\ last'.origin = "err"
              /\ last'.call = c /\ eventSource'[c] # eventSource[c])
             => ConfirmsNotRunning(last'.outcome) ]_vars

C6_Witness ==
  /\ last.kind = "statusResponse"
  /\ last.origin = "err"
  /\ last.outcome = "running"
  /\ eventSource[last.call] = "open"
  /\ activeStreams[last.run] = last.call
  /\ onCloseCount[last.call] = 0

\* Failures of a liveness query other than a confirmed not-found.
IsInconclusive(outcome) == outcome \in {"http500", "noToken", "networkFailure"}

\* C7: a liveness query of the watchdog or of the transport-error handler
\* that fails for another reason than a not-found changes neither the
\* connection nor activeStreams, calls no onClose and adds nothing to
\* nonRunningAgentRuns.
C7_FailedQueryIsInconclusive ==
  [][ (last'.kind = "statusResponse" /\ IsInconclusive(last'.outcome))
        => ( /\ eventSource' = eventSource
             /\ activeStreams' = activeStreams
             /\ onCloseCount' = onCloseCount
             /\ nonRunningAgentRuns' = nonRunningAgentRuns
             /\ Count(last'.cbs, "onClose") = 0 ) ]_vars

C7_Witness ==
  /\ last.kind = "statusResponse"
  /\ last.origin = "err"
  /\ IsInconclusive(last.outcome)
  /\ eventSource[last.call] = "open"
  /\ last.run \notin nonRunningAgentRuns
  /\ onCloseCount[last.call] = 0

\* C8: when the watchdog's query reports a status other than running, the
\* run id is terminal, the connection is closed and onClose has been
\* invoked exactly once, also when a transport-error path fires concurrently.
C8_WatchdogClosesExactlyOnce ==
  ( /\ last.kind = "statusResponse"
    /\ last.origin = "wd"
    /\ last.outcome = "completed" )
  => ( /\ last.run \in nonRunningAgentRuns
       /\ eventSource[last.call] = "closed"
       /\ onCloseCount[last.call] = 1 )

\* C9: a liveness query answered with not-found (HTTP 404) marks the run id
\* terminal, closes the connection and invokes onClose, in the watchdog path
\* as in the transport-error path.
C9_NotFoundClosesOnBothPaths ==
  (last.kind = "statusResponse" /\ last.outcome = "http404")
  => ( /\ last.run \in nonRunningAgentRuns
       /\ eventSource[last.call] = "closed"
       /\ Count(last.cbs, "onClose") = 1 )

\* C10: stopAgent registers the run id as terminal before its remote stop
\* request goes out, and every getAgentStatus call begun after stopAgent
\* began is refused from the terminal set: no request reaches the backend.
C10_StopMarksBeforeRequest ==
  [][ /\ \A r \in Runs :
           remoteStops'[r] > remoteStops[r] => r \in nonRunningAgentRuns
      /\ \A r \in Runs :
           stopPc'[r].begun > 0 => r \in nonRunningAgentRuns'
      /\ ( /\ last'.kind \in {"error", "watchdog"}
           /\ stopPc[last'.run].begun > 0 )
         => (last'.query = "knownNonRunning" /\ pending' = pending) ]_vars

C10_Witness ==
  /\ last.kind \in {"error", "watchdog"}
  /\ last.query = "knownNonRunning"
  /\ stopPc[last.run].begun > 0
  /\ stopPc[last.run].fetch > 0

\* C11: when stopAgent is called a second time for a run id after a first
\* call that found a token and was accepted by the backend, and no call
\* throws, at most one remote stop request has been issued for the run id.
C11_SecondStopSendsNothing ==
  \A r \in Runs :
    (stopPc[r].begun >= 2 /\ ~stopPc[r].threw) => remoteStops[r] <= 1

\* C12: after the cleanup function of a subscription that has been set up
\* is invoked, that subscription's EventSource is closed, activeStreams has
\* no entry for the run id and the subscription's watchdog is cleared.
C12_CleanupReleasesSubscription ==
  (last.kind = "cleanup" /\ setupPc[last.call] = "done")
  => ( /\ eventSource[last.call] # "open"
       /\ activeStreams[last.run] = NoCall
       /\ ~watchdogInterval[last.call] )

\* C13: a message whose handling raises an exception is reported through
\* onError once and changes nothing else: the EventSource, activeStreams
\* and nonRunningAgentRuns stay as they were and onClose is not invoked.
C13_HandlerExceptionIsLocal ==
  [][ (last'.kind = "message" /\ last'.threw)
      => ( /\ Count(last'.cbs, "onError") = 1
           /\ Count(last'.cbs, "onClose") = 0
           /\ eventSource' = eventSource
           /\ activeStreams' = activeStreams
           /\ nonRunningAgentRuns' = nonRunningAgentRuns ) ]_vars

\* C14: a streamAgent start that finds no access token never has an
\* EventSource, an activeStreams entry or a watchdog interval, and the
\* failure is handed to onError when the token is found missing.
C14_NoTokenNoSubscription ==
  /\ \A c \in Calls :
       setupPc[c] = "noToken"
       => ( /\ eventSource[c] = "none"
            /\ activeStreams[callRun[c]] # c
            /\ ~watchdogInterval[c]
            /\ pending[c] = [wd |-> 0, err |-> 0] )
  /\ (last.kind = "setupStream" /\ last.outcome = "noToken")
     => Count(last.cbs, "onError") = 1

C14_Witness ==
  /\ last.kind = "setupStream"
  /\ last.outcome = "noToken"
  /\ setupPc[last.call] = "noToken"

\* C15: no step removes a run id from nonRunningAgentRuns.
C15_TerminalSetOnlyGrows ==
  [][nonRunningAgentRuns \subseteq nonRunningAgentRuns']_vars

C15_Witness ==
  /\ last.kind = "streamAgent"
  /\ last.run \in nonRunningAgentRuns

\* C16: a message whose payload contains the ping marker resets the
\* last-activity time and does nothing else: no callback is invoked and
\* the EventSource, activeStreams and nonRunningAgentRuns are unchanged.
C16_PingOnlyTouchesActivity ==
  [][ (last'.kind = "message" /\ Ping \in last'.payload)
      => ( /\ last'.cbs = << >>
           /\ elapsed' = 0
           /\ eventSource' = eventSource
           /\ activeStreams' = activeStreams
           /\ nonRunningAgentRuns' = nonRunningAgentRuns ) ]_vars

C16_Witness ==
  /\ last.kind = "message"
  /\ Ping \in last.payload
  /\ NotFoundText \in last.payload
  /\ eventSource[last.call] = "open"
  /\ elapsed = 0

\* Number of entries of the exposed message list that carry the id.
Occurrences(id) ==
  Cardinality({i \in DOMAIN messages : messages[i]["message_id"] = id})

\* C17: the message list the hook exposes holds no message_id twice, and
\* the id of a message that was just upserted, whether it arrived for the
\* first time or again, is in the list exactly once.
C17_EachIdOnceInMessages ==
  /\ \A id \in MsgIds : Occurrences(id) <= 1
  /\ lastOp.op \in {"updateMessage", "streamMessage"}
     => Occurrences(lastOp.id) = 1

C17_Witness ==
  /\ lastOp.op = "streamMessage"
  /\ lastOp.existed
  /\ Len(messages) = 2

\* C18: updateMessage(m) on a store whose order holds m.message_id leaves
\* order as it is and replaces the record by one whose keys are the keys of
\* the old record and of m, with m's value on every key of m and the old
\* value on the others; on a store that does not hold the id it appends the
\* id to order and stores m.
C18_UpsertMergesOrAppends ==
  [][ lastOp'.op = "updateMessage"
      => \A m \in AgentMessages :
           UpdateMessage(m)
           => LET id == m["message_id"] IN
                IF id \in Range(state.order)
                  THEN /\ state'.order = state.order
                       /\ DOMAIN state'.byId[id] =
                            DOMAIN state.byId[id] \cup DOMAIN m
                       /\ \A k \in DOMAIN state'.byId[id] :
                            state'.byId[id][k] =
                              IF k \in DOMAIN m THEN m[k]
                                               ELSE state.byId[id][k]
                  ELSE /\ state'.order = Append(state.order, id)
                       /\ state'.byId[id] = m ]_vars

C18_Witness ==
  /\ lastOp.op = "updateMessage"
  /\ lastOp.existed
  /\ DOMAIN state.byId[lastOp.id] = {"message_id", "content", "metadata"}
  /\ state.byId[lastOp.id]["content"] = "c2"
  /\ state.order = << "m1", "m2" >>

\* C19: order has as many entries as byId has keys, and the keys of byId
\* are the ids listed in order.
C19_OrderMatchesById ==
  /\ Len(state.order) = Cardinality(DOMAIN state.byId)
  /\ DOMAIN state.byId = Range(state.order)

C19_Witness ==
  /\ lastOp.op = "clear"
  /\ nStarts > 0
  /\ state.order = << >>

\* C20: once clear() has returned, no connection opened by a startStreaming
\* call that began before it is open.
C20_NoLiveStreamAfterClear ==
  \A k \in Starts : clearedSince[k] => runStream[k] # "open"

\* C21: a failed start of streaming and a failed load of the run leave
\* byId and order as they were; a failed load changes nothing but error.
C21_ErrorsKeepHistory ==
  [][ /\ lastOp'.op \in {"startFailed", "loadFailed"}
         => ( /\ state'.byId = state.byId
              /\ state'.order = state.order
              /\ state'.error # NoError )
      /\ lastOp'.op = "loadFailed"
         => state'.isStreaming = state.isStreaming ]_vars

C21_Witness ==
  /\ lastOp.op = "startFailed"
  /\ Len(state.order) = 2
  /\ state.error = "Failed to start streaming"
  /\ ~state.isStreaming

\* C22: on a loaded thread currentMessageIndex is at least 0 and at most
\* the number of messages.
C22_IndexWithinHistory ==
  thread.loaded
  => ( /\ 0 <= currentMessageIndex
       /\ currentMessageIndex <= Len(thread.messages) )

\* C23: whenever playback is running it eventually stops, the timers
\* firing when they are due and the user doing nothing more.
C23_PlaybackRunsToEnd == isPlaying ~> ~isPlaying

\* max(0, min(index, n - 1)) written out by cases.
Clamped(index, n) ==
  IF index < 0 THEN 0 ELSE IF index > n - 1 THEN n - 1 ELSE index

\* C24: right after skipToMessage(index) on a thread of n >= 1 messages
\* currentMessageIndex is index clamped into 0 .. n-1, playback is stopped
\* and streamingText is empty.
C24_SkipClampsAndStops ==
  (lastPlayback.op = "skip" /\ Len(thread.messages) >= 1)
  => ( /\ currentMessageIndex =
            Clamped(lastPlayback.arg, Len(thread.messages))
       /\ ~isPlaying
       /\ streamingText = << >> )

C24_Witness ==
  /\ lastPlayback.op = "skip"
  /\ lastPlayback.arg = 999
  /\ Len(thread.messages) = 2
  /\ currentMessageIndex = 1
  /\ settleTimeouts > 0

\* C25: right after pausePlayback() in the middle of a reveal, playback is
\* stopped and the current message is displayed as far as it was revealed.
C25_PauseFreezesReveal ==
  ( /\ lastPlayback.op = "pause"
    /\ lastPlayback.partial
    /\ currentMessageIndex < Len(thread.messages) )
  => ( /\ ~isPlaying
       /\ DisplayContent = streamingText )

\* C26: the text displayed for the current message never holds the opening
\* of an attachment marker.
C26_NoMarkerDisplayed ==
  (thread.loaded /\ currentMessageIndex < Len(thread.messages))
  => "[U" \notin Range(DisplayContent)

\* The canonical types as the contract lists them.
ListedCanonical ==
  {"user", "assistant", "tool_call", "tool_result", "tool_start",
   "tool_error", "status"}

\* C27: a raw event whose type is already canonical is returned with exactly
\* the type and the content it came with.
C27_CanonicalPassthrough ==
  (norm.calls >= 1 /\ norm.raw # Null /\ norm.raw.type \in ListedCanonical)
    => /\ norm.first.type = norm.raw.type
       /\ norm.first.content = norm.raw.content

C27_Witness ==
  /\ norm.calls = 1
  /\ norm.raw # Null
  /\ norm.raw.type = "user"
  /\ norm.raw.content =
       Str(<< OpenBrace, Ws, Pair("content", "hi"), Ws, CloseBrace >>)
  /\ norm.raw.metadata = Str(<< Text("plain") >>)
  /\ norm.first.type = "user"
  /\ norm.first.content = norm.raw.content

\* The event's content is a non-empty string that is not JSON text.
ContentParseFails(message) ==
  /\ message # Null
  /\ message.content.kind = "string"
  /\ message.content.text # << >>
  /\ ~JsonParse(message.content).ok

\* The returned message still holds the text: as content, as output or in
\* the raw event it carries.
Retains(out, text) ==
  \/ out.content = text
  \/ out.output = text
  \/ (out.raw # Null /\ out.raw.content = text)

\* C28: when the content of a raw event cannot be parsed as structured
\* data, the normalized message retains that content verbatim.
C28_ParseFailureKeepsContent ==
  (norm.calls >= 1 /\ ContentParseFails(norm.raw))
    => Retains(norm.first, norm.raw.content)

\* C29: a raw event that carries an id or a message_id is normalized to a
\* message with that id, id before message_id, on every path.
C29_IdFromEvent ==
  (/\ norm.calls >= 1
   /\ norm.raw # Null
   /\ (norm.raw.id # NoValue \/ norm.raw.message_id # NoValue))
    => norm.first.id = IF norm.raw.id # NoValue THEN norm.raw.id
                       ELSE norm.raw.message_id

\* The properties of a value read as structured data: those of an object,
\* those of JSON text, none otherwise.
PropertiesOf(val) ==
  IF val.kind = "object" THEN val
  ELSE IF JsonParse(val).ok THEN JsonParse(val).value
  ELSE Obj(<< >>)

RECURSIVE Underscored(_)
Underscored(name) ==
  IF name = << >> THEN << >>
  ELSE << IF Head(name) = "-" THEN "_" ELSE Head(name) >>
         \o Underscored(Tail(name))

\* The tool name the precedence of the contract gives a tool message:
\* metadata, marker in the content, function-name field, "unknown".
ExpectedToolName(message) ==
  LET metadata == PropertiesOf(message.metadata)
      markers == {i \in DOMAIN message.content.text :
                    message.content.text[i].t = "tag"}
      fields == {i \in DOMAIN message.content.text :
                   message.content.text[i].k = "function_name"}
  IN IF Truthy(Get(metadata, "tool_name")) THEN Get(metadata, "tool_name")
     ELSE IF Truthy(Get(metadata, "function_name"))
     THEN Get(metadata, "function_name")
     ELSE IF markers # {}
     THEN JoinName(Underscored(
            message.content.text[CHOOSE i \in markers :
                                   \A j \in markers : i <= j].name))
     ELSE IF fields # {}
     THEN message.content.text[CHOOSE i \in fields :
                                 \A j \in fields : i <= j].v
     ELSE IF Truthy(Get(PropertiesOf(message.content), "function_name"))
     THEN Get(PropertiesOf(message.content), "function_name")
     ELSE "unknown"

\* A legacy tool message whose content names no tool and wraps no result
\* block, and whose metadata, if it is a string, is JSON text.
UnnamedToolMessage(message) ==
  /\ message # Null
  /\ message.type \notin ListedCanonical
  /\ (message.type = "tool" \/ message.role = "tool")
  /\ ~Has(PropertiesOf(message.content), "tool")
  /\ \A i \in DOMAIN message.content.text :
        message.content.text[i].name # ToolResultName
  /\ (message.metadata.kind = "string" /\ message.metadata.text # << >>)
       => JsonParse(message.metadata).ok

\* C30: the tool name of a tool message without an explicit tool name is
\* the name in its metadata, else the marker embedded in its content, else
\* the function-name field of its parsed content, else "unknown".
C30_ToolNamePrecedence ==
  (norm.calls >= 1 /\ UnnamedToolMessage(norm.raw))
    => norm.first.tool = ExpectedToolName(norm.raw)

\* The first result block of a text: the tokens between the first opening
\* <tool_result> and the closing marker that follows it.
BlockBody(text) ==
  LET i == CHOOSE o \in DOMAIN text :
             /\ text[o].t = "tag" /\ text[o].name = ToolResultName
             /\ \A p \in 1..(o - 1) : text[p].t # "tag"
      j == CHOOSE c \in DOMAIN text :
             /\ c > i /\ text[c].t = "endtag"
             /\ \A d \in (i + 1)..(c - 1) : text[d].t # "endtag"
  IN SubSeq(text, i + 1, j - 1)

\* A legacy tool message whose content is one result block, with metadata
\* that can be read.
ToolMessageWithBlock(message) ==
  /\ message # Null
  /\ message.type \notin ListedCanonical
  /\ (message.type = "tool" \/ message.role = "tool")
  /\ message.content.kind = "string"
  /\ Len(message.content.text) >= 2
  /\ message.content.text[1] = Tag(ToolResultName)
  /\ message.content.text[Len(message.content.text)] = EndTag(ToolResultName)
  /\ \A i \in 2..(Len(message.content.text) - 1) :
        message.content.text[i].t \notin {"tag", "endtag"}
  /\ (message.metadata.kind = "string" /\ message.metadata.text # << >>)
       => JsonParse(message.metadata).ok

\* C31: a tool message whose content embeds a result block becomes a
\* tool_result whose output is the output of the parsed body of the block,
\* or the raw text of the block when the body cannot be parsed.
C31_ResultBlockOutput ==
  (norm.calls >= 1 /\ ToolMessageWithBlock(norm.raw))
    => LET body == Str(BlockBody(norm.raw.content.text)) IN
         /\ norm.first.type = "tool_result"
         /\ IF JsonParse(body).ok
            THEN norm.first.output =
                   ValueOf(Get(JsonParse(body).value, "output"))
            ELSE norm.first.output \in {body, norm.raw.content}

\* The payloads of the file-write scenario, as JSON text.
FileWriteStart ==
  Str(<< OpenBrace, Pair("tag", "file-write"),
         NestedPair("attrs", "path", "out.txt"), CloseBrace >>)

FileWriteResult ==
  Str(<< OpenBrace, Pair("tag", "file-write"),
         NestedPair("result", "ok", "true"),
         NestedPair("result", "path", "out.txt"), CloseBrace >>)

\* C32: the tool model of the normalized file-write tool_start, and of the
\* normalized file-write tool_result, has tag "file-write" and path
\* "out.txt".
C32_FileWriteModel ==
  (/\ norm.model # NoToolModel
   /\ \/ (norm.raw.type = "tool_start" /\ norm.raw.content = FileWriteStart)
      \/ (norm.raw.type = "tool_result"
            /\ norm.raw.content = FileWriteResult))
    => (norm.model.tag = "file-write" /\ norm.model.path = "out.txt")

\* C33: a tool model whose message resolves no tag has the tag "unknown",
\* and a message without content resolves no other field.
C33_UnresolvedFields ==
  (/\ norm.model # NoToolModel
   /\ norm.raw.type \in {"tool_start", "tool_result", "tool_error"}
   /\ norm.raw.content \in {Undefined, Str(<< Text("plain") >>)})
    => /\ norm.model.tag = "unknown"
       /\ norm.model.path = NoValue
       /\ norm.model.logs = NoValue
       /\ norm.model.workspace = NoValue
       /\ norm.model.mode = NoValue
       /\ norm.model.error = NoValue
       /\ norm.model.attrs = Undefined
       /\ norm.model.result = Undefined

\* C34: the silence a subscription's watchdog measures is that of its own
\* run's stream: once it exceeds the timeout, a message on the subscription
\* of another run does not bring it back under the timeout.
C34_WatchdogSilenceIsPerRun ==
  [][ last'.kind = "message"
        => \A c \in Calls :
             (/\ c # last'.call
              /\ callRun[c] # callRun[last'.call]
              /\ eventSource[c] = "open"
              /\ watchdogInterval[c]
              /\ elapsed > WatchdogTimeoutMs)
               => elapsed' > WatchdogTimeoutMs ]_vars

\* C35: when the cleanup of a call has just run while the call's setup was
\* still waiting for the credentials, no step that follows gives the call an
\* open EventSource or an armed watchdog.
C35_CancelledStartStaysClosed ==
  [][ (/\ last.kind = "cleanup"
       /\ setupPc[last.call] = "awaitSession")
        => (/\ eventSource'[last.call] # "open"
            /\ ~watchdogInterval'[last.call]) ]_vars

\* C36: the cleanup of an earlier call, run after a later call for the same
\* run id has replaced its subscription, leaves the later call's connection
\* open and its activeStreams entry in place.
C36_CleanupAffectsOwnSubscription ==
  [][ last'.kind = "cleanup"
        => \A c \in Calls :
             (/\ c > last'.call
              /\ callRun[c] = callRun[last'.call]
              /\ eventSource[last'.call] = "closed"
              /\ eventSource[c] = "open"
              /\ activeStreams[callRun[c]] = c)
               => (eventSource'[c] = "open"
                     /\ activeStreams'[callRun[c]] = c) ]_vars

\* C37: after a transport error whose liveness query reported the run
\* still running, the connection is open and its watchdog is still armed.
C37_WatchdogArmedAfterError ==
  (/\ last.kind = "statusResponse"
   /\ last.origin = "err"
   /\ last.outcome = "running"
   /\ eventSource[last.call] = "open")
    => watchdogInterval[last.call]

\* C38: after pausePlayback, skipToMessage or resetPlayback no timer of the
\* earlier playback changes currentMessageIndex or streamingText.
C38_StoppedPlaybackStaysPut ==
  [][ (/\ lastPlayback.op \in {"pause", "skip", "reset"}
       /\ lastPlayback'.op \in {"reveal", "settle"})
        => (/\ currentMessageIndex' = currentMessageIndex
            /\ streamingText' = streamingText) ]_vars

\* C39: after the load of a history in which one message has malformed
\* metadata, the replay history holds the other messages of that history.
C39_MalformedMessageLoadsRest ==
  lastPlayback.op = "loadFailed"
    => (thread.loaded /\ Len(thread.messages) >= lastPlayback.arg)

====
